---- MODULE Spec2Model ----
(***************************************************************************)
(* A model of the fingertip paint programs of this repository:            *)
(*   src/src/gesture_recognizer.py  GestureRecognizer (posture classifier) *)
(*   src/src/filters.py             OutlierGuard                           *)
(*   src/src/ui.py                  UI layout and hit testing              *)
(*   src/src/canvas.py              Canvas (raster, pen state)             *)
(*   src/src/paint_app.py           PaintApp (frame controller, keys)      *)
(*   src/fingertip_paint.py         FingertipPaintApp (single-file app)    *)
(*                                                                         *)
(* Several specifications share the variables below.  Spec runs one of    *)
(* the two programs frame by frame; SpecCanvas drives the Canvas class    *)
(* through its methods; SpecClassifier, SpecGuard and SpecSelect apply    *)
(* the classifier, OutlierGuard.filter and the selection handler to       *)
(* inputs drawn from bounded sets.                                         *)
(*                                                                         *)
(* Conventions.  A landmark is a record [x, y, z] of normalized            *)
(* coordinates in hundredths (the classifier only compares them); a hand  *)
(* is a function from landmark names to landmarks.  The raster is the     *)
(* sequence of drawing calls made on the background-filled image since    *)
(* it was last filled: cv2.circle,                                        *)
(* cv2.line and cv2.resize are library calls, so the raster is kept as    *)
(* what was asked of them, in order; <<>> is the all-background image.    *)
(***************************************************************************)
EXTENDS Integers, Sequences, FiniteSets, TLC

VARIABLES
  program,   \* which program runs: "PaintApp" | "FingertipPaintApp" | "none"
  pc,        \* position in the running loop or harness
  cam,       \* the camera's frame shape <<h, w>>
  canvas,    \* the Canvas object (for FingertipPaintApp: its canvas and prev_x/prev_y)
  app,       \* the application object's fields
  ui,        \* the UI object's stored button bounds
  out,       \* what the last frame reported: [drawing, status]
  hist,      \* history of the run (not program state): what the last operation did
  guard,     \* an OutlierGuard object
  arg,       \* harness: the input the operation under test was applied to
  ret        \* harness: what it returned

vars == <<program, pc, cam, canvas, app, ui, out, hist, guard, arg, ret>>

\* Python None.  Every optional value of the model is a tuple, so that None and a
\* value of the field compare: an optional pair is <<>> or <<x, y>>, an optional
\* integer is <<>> or <<n>>.
None == <<>>
Some(v) == <<v>>
Val(o) == o[1]

\* The value of a variable that the running specification does not use.
Unused == "unused"

(***************************************************************************)
(* Python arithmetic                                                       *)
(***************************************************************************)

\* int(a / b) for b > 0: Python's int() truncates toward zero.
IntDiv(a, b) == IF a >= 0 THEN a \div b ELSE -((-a) \div b)

\* a // b for b > 0: floor division (TLA+'s \div floors).
FloorDiv(a, b) == a \div b

Min(a, b) == IF a < b THEN a ELSE b
Max(a, b) == IF a > b THEN a ELSE b

(***************************************************************************)
(* GestureRecognizer: posture classification                               *)
(***************************************************************************)

FingerTips == <<"INDEX_FINGER_TIP", "MIDDLE_FINGER_TIP", "RING_FINGER_TIP", "PINKY_TIP">>
FingerPips == <<"INDEX_FINGER_PIP", "MIDDLE_FINGER_PIP", "RING_FINGER_PIP", "PINKY_PIP">>
ThumbMarks == <<"THUMB_TIP", "THUMB_IP">>

LandmarkNames ==
  {FingerTips[i] : i \in 1..4} \cup {FingerPips[i] : i \in 1..4}
    \cup {ThumbMarks[i] : i \in 1..2}

\* Mutant: a tie (tip.y = pip.y) counts as a finger that is down.
is_index_finger_up_TieIsDown(landmarks) ==
  /\ landmarks["INDEX_FINGER_TIP"].y < landmarks["INDEX_FINGER_PIP"].y
  /\ landmarks["MIDDLE_FINGER_TIP"].y >= landmarks["MIDDLE_FINGER_PIP"].y
  /\ landmarks["RING_FINGER_TIP"].y >= landmarks["RING_FINGER_PIP"].y
  /\ landmarks["PINKY_TIP"].y >= landmarks["PINKY_PIP"].y

\* Mutant: the thumb must be down too.
is_index_finger_up_WithThumb(landmarks) ==
  /\ landmarks["INDEX_FINGER_TIP"].y < landmarks["INDEX_FINGER_PIP"].y
  /\ landmarks["MIDDLE_FINGER_TIP"].y > landmarks["MIDDLE_FINGER_PIP"].y
  /\ landmarks["RING_FINGER_TIP"].y > landmarks["RING_FINGER_PIP"].y
  /\ landmarks["PINKY_TIP"].y > landmarks["PINKY_PIP"].y
  /\ landmarks["THUMB_TIP"].y > landmarks["THUMB_IP"].y

\* GestureRecognizer.is_index_finger_up: index up, middle, ring and pinky down.
is_index_finger_up(landmarks) ==
  LET index_up == landmarks["INDEX_FINGER_TIP"].y < landmarks["INDEX_FINGER_PIP"].y
      middle_down == landmarks["MIDDLE_FINGER_TIP"].y > landmarks["MIDDLE_FINGER_PIP"].y
      ring_down == landmarks["RING_FINGER_TIP"].y > landmarks["RING_FINGER_PIP"].y
      pinky_down == landmarks["PINKY_TIP"].y > landmarks["PINKY_PIP"].y
  IN index_up /\ middle_down /\ ring_down /\ pinky_down

\* FingertipPaintApp.is_index_finger_up: reads the thumb landmarks and does not
\* use them.
legacy_is_index_finger_up(landmarks) ==
  LET thumb_tip == landmarks["THUMB_TIP"]
      thumb_ip == landmarks["THUMB_IP"]
      index_up == landmarks["INDEX_FINGER_TIP"].y < landmarks["INDEX_FINGER_PIP"].y
      middle_down == landmarks["MIDDLE_FINGER_TIP"].y > landmarks["MIDDLE_FINGER_PIP"].y
      ring_down == landmarks["RING_FINGER_TIP"].y > landmarks["RING_FINGER_PIP"].y
      pinky_down == landmarks["PINKY_TIP"].y > landmarks["PINKY_PIP"].y
  IN index_up /\ middle_down /\ ring_down /\ pinky_down

\* The loop of is_all_fingers_up over zip(finger_tips, finger_pips), from the
\* i-th pair on.
RECURSIVE fingers_up_from(_, _)
fingers_up_from(landmarks, i) ==
  IF i > Len(FingerTips) THEN 0
  ELSE (IF landmarks[FingerTips[i]].y < landmarks[FingerPips[i]].y THEN 1 ELSE 0)
         + fingers_up_from(landmarks, i + 1)

fingers_up(landmarks) == fingers_up_from(landmarks, 1)

\* Mutant: three fingers are enough.
is_all_fingers_up_AtLeast3(landmarks) == fingers_up(landmarks) >= 3

\* GestureRecognizer.is_all_fingers_up (FingertipPaintApp's copy is the same).
is_all_fingers_up(landmarks) == fingers_up(landmarks) >= 4

\* The if / elif / else of PaintApp.process_frame (and of process_hand): Draw is
\* tested first, then Select, and everything else is Idle.
Intent(landmarks) ==
  IF is_index_finger_up(landmarks) THEN "Draw"
  ELSE IF is_all_fingers_up(landmarks) THEN "Select"
  ELSE "Idle"

\* FingertipPaintApp.process_hand's dispatch.
legacy_Intent(landmarks) ==
  IF legacy_is_index_finger_up(landmarks) THEN "Draw"
  ELSE IF is_all_fingers_up(landmarks) THEN "Select"
  ELSE "Idle"

(***************************************************************************)
(* OutlierGuard (filters.py)                                               *)
(*                                                                         *)
(* distance = sqrt(dx*dx + dy*dy) is kept squared: on integer samples     *)
(* every comparison the code makes is decided exactly by the squares.     *)
(* The field prev_velocity2 holds prev_velocity * prev_velocity.          *)
(***************************************************************************)

max_jump == 80
dead_zone == 2

\* OutlierGuard.__init__
OutlierGuard_init(mj, dz) ==
  [max_jump |-> mj, dead_zone |-> dz, prev_pos |-> None, prev_velocity2 |-> 0]

\* (dx*dx + dy*dy), the square of `distance`
distance2(g, x, y) ==
  LET dx == x - g.prev_pos[1]
      dy == y - g.prev_pos[2]
  IN dx * dx + dy * dy

\* distance > self.max_jump and self.prev_velocity < self.max_jump * 0.5
is_outlier(g, x, y) ==
  /\ distance2(g, x, y) > g.max_jump * g.max_jump
  /\ 4 * g.prev_velocity2 < g.max_jump * g.max_jump

\* distance < self.dead_zone
in_dead_zone(g, x, y) == distance2(g, x, y) < g.dead_zone * g.dead_zone

\* Mutant: a rejected sample is remembered as the velocity, so that the next far
\* sample finds the guard moving fast.
OutlierGuard_filter_Recovers(g, x, y) ==
  IF g.prev_pos = None
    THEN [guard |-> [g EXCEPT !.prev_pos = <<x, y>>], x |-> x, y |-> y, is_valid |-> TRUE]
  ELSE IF is_outlier(g, x, y)
    THEN [guard |-> [g EXCEPT !.prev_velocity2 = distance2(g, x, y)],
          x |-> g.prev_pos[1], y |-> g.prev_pos[2], is_valid |-> FALSE]
  ELSE IF in_dead_zone(g, x, y)
    THEN [guard |-> g, x |-> g.prev_pos[1], y |-> g.prev_pos[2], is_valid |-> TRUE]
  ELSE [guard |-> [g EXCEPT !.prev_velocity2 = distance2(g, x, y), !.prev_pos = <<x, y>>],
        x |-> x, y |-> y, is_valid |-> TRUE]

\* Mutant: an accepted movement records the position and not the velocity.
OutlierGuard_filter_StaleVelocity(g, x, y) ==
  IF g.prev_pos = None
    THEN [guard |-> [g EXCEPT !.prev_pos = <<x, y>>], x |-> x, y |-> y, is_valid |-> TRUE]
  ELSE IF is_outlier(g, x, y)
    THEN [guard |-> g, x |-> g.prev_pos[1], y |-> g.prev_pos[2], is_valid |-> FALSE]
  ELSE IF in_dead_zone(g, x, y)
    THEN [guard |-> g, x |-> g.prev_pos[1], y |-> g.prev_pos[2], is_valid |-> TRUE]
  ELSE [guard |-> [g EXCEPT !.prev_pos = <<x, y>>], x |-> x, y |-> y, is_valid |-> TRUE]

\* Mutant: the velocity test is dropped from the wrong side (a jump is rejected
\* only when the guard WAS moving fast).
OutlierGuard_filter_FastOnly(g, x, y) ==
  IF g.prev_pos = None
    THEN [guard |-> [g EXCEPT !.prev_pos = <<x, y>>], x |-> x, y |-> y, is_valid |-> TRUE]
  ELSE IF distance2(g, x, y) > g.max_jump * g.max_jump
          /\ 4 * g.prev_velocity2 >= g.max_jump * g.max_jump
    THEN [guard |-> g, x |-> g.prev_pos[1], y |-> g.prev_pos[2], is_valid |-> FALSE]
  ELSE IF in_dead_zone(g, x, y)
    THEN [guard |-> g, x |-> g.prev_pos[1], y |-> g.prev_pos[2], is_valid |-> TRUE]
  ELSE [guard |-> [g EXCEPT !.prev_velocity2 = distance2(g, x, y), !.prev_pos = <<x, y>>],
        x |-> x, y |-> y, is_valid |-> TRUE]

\* Mutant: no dead zone (every accepted sample moves the position).
OutlierGuard_filter_NoDeadZone(g, x, y) ==
  IF g.prev_pos = None
    THEN [guard |-> [g EXCEPT !.prev_pos = <<x, y>>], x |-> x, y |-> y, is_valid |-> TRUE]
  ELSE IF is_outlier(g, x, y)
    THEN [guard |-> g, x |-> g.prev_pos[1], y |-> g.prev_pos[2], is_valid |-> FALSE]
  ELSE [guard |-> [g EXCEPT !.prev_velocity2 = distance2(g, x, y), !.prev_pos = <<x, y>>],
        x |-> x, y |-> y, is_valid |-> TRUE]

\* OutlierGuard.filter: the guard after the call and the returned
\* (filtered_x, filtered_y, is_valid).
OutlierGuard_filter(g, x, y) ==
  IF g.prev_pos = None
    THEN [guard |-> [g EXCEPT !.prev_pos = <<x, y>>], x |-> x, y |-> y, is_valid |-> TRUE]
  ELSE IF is_outlier(g, x, y)
    THEN [guard |-> g, x |-> g.prev_pos[1], y |-> g.prev_pos[2], is_valid |-> FALSE]
  ELSE IF in_dead_zone(g, x, y)
    THEN [guard |-> g, x |-> g.prev_pos[1], y |-> g.prev_pos[2], is_valid |-> TRUE]
  ELSE [guard |-> [g EXCEPT !.prev_velocity2 = distance2(g, x, y), !.prev_pos = <<x, y>>],
        x |-> x, y |-> y, is_valid |-> TRUE]

\* OutlierGuard.reset
OutlierGuard_reset(g) == [g EXCEPT !.prev_pos = None, !.prev_velocity2 = 0]

(***************************************************************************)
(* UI (ui.py): layout and hit testing                                      *)
(***************************************************************************)

\* ColorPalette.COLORS, (BGR colour, name)
COLORS ==
  << <<<<0, 0, 255>>, "Red">>, <<<<0, 255, 0>>, "Green">>, <<<<255, 0, 0>>, "Blue">>,
     <<<<0, 255, 255>>, "Yellow">>, <<<<255, 0, 255>>, "Magenta">>,
     <<<<255, 255, 0>>, "Cyan">>, <<<<0, 0, 0>>, "Black">>, <<<<255, 255, 255>>, "White">> >>

\* palette[i] for a Python index i in 0..7
palette(i) == COLORS[i + 1][1]

White == <<255, 255, 255>>
Black == <<0, 0, 0>>
Red == <<0, 0, 255>>

\* UI.__init__(palette_height=80)
palette_height == 80

\* UI.get_scale_factor, in hundredths (0.5, 0.7, 0.85, 1.0)
get_scale_factor(frame_width) ==
  IF frame_width < 600 THEN 50
  ELSE IF frame_width < 800 THEN 70
  ELSE IF frame_width < 1000 THEN 85
  ELSE 100

\* int(k * scale) in IEEE double arithmetic, scale in hundredths.  The products
\* 350 * 0.7 and 90 * 0.7 round to just below 245 and 63, so int() gives 244 and
\* 62; every other product the layout takes is the exact one.
ScaleInt(k, scale) ==
  IF scale = 70 /\ k \in {350, 90} THEN (k * scale) \div 100 - 1
  ELSE (k * scale) \div 100

\* UI.draw_color_palette: the rectangle cv2.rectangle fills for palette cell i
\* (0-based), <<x1, y1, x2, y2>>, both corners included.
palette_cell(i, frame_width) ==
  LET scale == get_scale_factor(frame_width)
      dynamic_palette_height == ScaleInt(palette_height, scale)
      reserved_width == ScaleInt(350, scale)
      available_width == Max(frame_width - reserved_width, FloorDiv(frame_width, 2))
      color_box_width == FloorDiv(available_width, Len(COLORS))
  IN <<i * color_box_width, 0, (i + 1) * color_box_width, dynamic_palette_height>>

\* UI.draw_buttons: the bounds it stores, [eraser_button_bounds, clear_button_bounds]
draw_buttons(width) ==
  LET scale == get_scale_factor(width)
      button_height == ScaleInt(60, scale)
      button_width == ScaleInt(90, scale)
      spacing == ScaleInt(10, scale)
      margin == ScaleInt(10, scale)
      clear_x2 == width - margin
      clear_x1 == clear_x2 - button_width
      eraser_x2 == clear_x1 - spacing
      eraser_x1 == eraser_x2 - button_width
      button_y1 == margin
      button_y2 == button_y1 + button_height
  IN [eraser_button_bounds |-> <<eraser_x1, button_y1, eraser_x2, button_y2>>,
      clear_button_bounds |-> <<clear_x1, button_y1, clear_x2, button_y2>>]

\* UI.__init__: no bounds are stored until draw_buttons has run.
UI_init == [eraser_button_bounds |-> None, clear_button_bounds |-> None]

\* Mutant: the hit test is off by one cell.
get_color_from_position_NextCell(x, y, frame_width) ==
  IF y < palette_height
    THEN LET color_box_width == FloorDiv(frame_width, Len(COLORS))
             color_index == FloorDiv(x, color_box_width) + 1
         IN IF 0 <= color_index /\ color_index < Len(COLORS)
              THEN COLORS[color_index + 1]
              ELSE None
    ELSE None

\* UI.get_color_from_position: (colour, name) or None
get_color_from_position(x, y, frame_width) ==
  IF y < palette_height
    THEN LET color_box_width == FloorDiv(frame_width, Len(COLORS))
             color_index == FloorDiv(x, color_box_width)
         IN IF 0 <= color_index /\ color_index < Len(COLORS)
              THEN COLORS[color_index + 1]
              ELSE None
    ELSE None

\* x1 < x < x2 and y1 < y < y2
strictly_inside(x, y, b) == b[1] < x /\ x < b[3] /\ b[2] < y /\ y < b[4]

\* UI.is_eraser_button_clicked: the stored bounds, or the old calculation when
\* draw_buttons has not run yet (hasattr fails).
is_eraser_button_clicked(u, x, y, frame_width) ==
  IF u.eraser_button_bounds # None
    THEN strictly_inside(x, y, u.eraser_button_bounds)
    ELSE frame_width - 210 < x /\ x < frame_width - 110 /\ 10 < y /\ y < 70

\* UI.is_clear_button_clicked
is_clear_button_clicked(u, x, y, frame_width) ==
  IF u.clear_button_bounds # None
    THEN strictly_inside(x, y, u.clear_button_bounds)
    ELSE frame_width - 100 < x /\ x < frame_width - 10 /\ 10 < y /\ y < 70

(***************************************************************************)
(* Canvas (canvas.py)                                                      *)
(*                                                                         *)
(* A drawing call is kept as [op, p1, p2, color, size, lineType]:          *)
(*   cv2.circle(center, radius, color, -1)   op "circle", p1 = p2 = center,*)
(*                                           size = radius, "FILLED"       *)
(*   cv2.line(p1, p2, color, thickness, t)   op "line", size = thickness   *)
(*   cv2.resize(canvas, (w, h))              op "resize", p1 = old (w, h), *)
(*                                           p2 = new (w, h)               *)
(***************************************************************************)

BufferLen == 5

circle(center, radius, color) ==
  [op |-> "circle", p1 |-> center, p2 |-> center, color |-> color, size |-> radius,
   lineType |-> "FILLED"]

line(p1, p2, color, thickness, lineType) ==
  [op |-> "line", p1 |-> p1, p2 |-> p2, color |-> color, size |-> thickness,
   lineType |-> lineType]

resized(old, new) ==
  [op |-> "resize", p1 |-> old, p2 |-> new, color |-> None, size |-> 0,
   lineType |-> "INTER_LINEAR"]

\* Canvas.__init__
Canvas_init(width, height, bg_color) ==
  [width |-> width, height |-> height, bg_color |-> bg_color, raster |-> <<>>,
   prev_x |-> None, prev_y |-> None, position_buffer |-> <<>>]

\* Mutant: a buffer without maxlen, nothing is ever dropped.
deque_append_Unbounded(buffer, pos) == Append(buffer, pos)

\* deque(maxlen=5).append: the oldest entry is dropped from a full buffer.
deque_append(buffer, pos) ==
  IF Len(buffer) >= BufferLen THEN Append(Tail(buffer), pos) ELSE Append(buffer, pos)

RECURSIVE sum_coord(_, _)
sum_coord(buffer, k) ==
  IF buffer = <<>> THEN 0 ELSE Head(buffer)[k] + sum_coord(Tail(buffer), k)

\* int(sum(pos[k] for pos in buffer) / len(buffer))
average(buffer, k) == IntDiv(sum_coord(buffer, k), Len(buffer))

\* Mutant: no smoothing, the raw point is committed.
smoothed_Raw(buffer, x, y) == <<x, y>>

\* The smoothed position of draw_line, from the buffer that already holds (x, y).
smoothed(buffer, x, y) ==
  IF Len(buffer) > 0 THEN <<average(buffer, 1), average(buffer, 2)>> ELSE <<x, y>>

\* Mutant: the pen state is left as it is.
reset_position_Keep(c) == c

\* Mutant: lifting the pen also refills the image.
reset_position_Refill(c) ==
  [c EXCEPT !.raster = <<>>, !.prev_x = None, !.prev_y = None, !.position_buffer = <<>>]

\* Mutant: lifting the pen forgets the last point and keeps the averaging buffer.
reset_position_KeepBuffer(c) == [c EXCEPT !.prev_x = None, !.prev_y = None]

\* Canvas.reset_position
reset_position(c) ==
  [c EXCEPT !.prev_x = None, !.prev_y = None, !.position_buffer = <<>>]

\* Mutant: a first point is remembered and not drawn.
draw_line_NoDot(c, x, y, color, thickness) ==
  LET buffer == deque_append(c.position_buffer, <<x, y>>)
      s == smoothed(buffer, x, y)
  IN [c EXCEPT !.position_buffer = buffer,
               !.raster = IF c.prev_x # None /\ c.prev_y # None
                            THEN Append(c.raster,
                                        line(<<Val(c.prev_x), Val(c.prev_y)>>, s, color,
                                             thickness, "LINE_AA"))
                            ELSE c.raster,
               !.prev_x = Some(s[1]),
               !.prev_y = Some(s[2])]

\* Canvas.draw_line
draw_line(c, x, y, color, thickness) ==
  LET buffer == deque_append(c.position_buffer, <<x, y>>)
      s == smoothed(buffer, x, y)
      mark == IF c.prev_x # None /\ c.prev_y # None
                THEN line(<<Val(c.prev_x), Val(c.prev_y)>>, s, color, thickness, "LINE_AA")
                ELSE circle(s, FloorDiv(thickness, 2), color)
  IN [c EXCEPT !.position_buffer = buffer,
               !.raster = Append(c.raster, mark),
               !.prev_x = Some(s[1]),
               !.prev_y = Some(s[2])]

\* Mutant: clear leaves the raster as it is.
clear_KeepRaster(c) == reset_position(c)

\* Mutant: clear refills the image and leaves the pen state as it is.
clear_KeepPen(c) == [c EXCEPT !.raster = <<>>]

\* Canvas.clear: a new background-filled image, then reset_position.
clear(c) == reset_position([c EXCEPT !.raster = <<>>])

\* Canvas.resize: cv2.resize raises for an empty destination size, before any
\* field is assigned; the exception leaves the method.
resize(c, width, height) ==
  IF <<c.height, c.width>> # <<height, width>>
    THEN IF width <= 0 \/ height <= 0
           THEN [canvas |-> c, raised |-> TRUE]
           ELSE [canvas |-> [c EXCEPT
                               !.raster = Append(c.raster,
                                                 resized(<<c.width, c.height>>, <<width, height>>)),
                               !.width = width,
                               !.height = height],
                 raised |-> FALSE]
    ELSE [canvas |-> c, raised |-> FALSE]

(***************************************************************************)
(* PaintApp (paint_app.py)                                                 *)
(***************************************************************************)

canvas_width == 1000
canvas_height == 700
depth_threshold == -5
MinBrush == 1
MaxBrush == 50

\* GestureRecognizer.get_index_finger_position: int(tip.x * w), int(tip.y * h),
\* the normalized coordinates being hundredths.
get_index_finger_position(landmarks, shape) ==
  LET index_tip == landmarks["INDEX_FINGER_TIP"]
      h == shape[1]
      w == shape[2]
  IN <<IntDiv(index_tip.x * w, 100), IntDiv(index_tip.y * h, 100)>>

\* GestureRecognizer.is_finger_close_enough is called by process_frame and is not
\* among the repository's files.  From the design text: the fingertip's relative
\* depth is compared against the threshold.
is_finger_close_enough(landmarks, threshold) ==
  landmarks["INDEX_FINGER_TIP"].z < threshold

\* PaintApp.__init__
PaintApp_canvas == Canvas_init(canvas_width, canvas_height, White)

PaintApp_init ==
  [current_color |-> Red, brush_size |-> 3, eraser_mode |-> FALSE,
   cursor_x |-> None, cursor_y |-> None,
   is_close_enough |-> FALSE]

\* Mutant: a Draw position inside the palette band lifts the pen.
process_drawing_gesture_LiftInBand(c, a, x, y) ==
  IF y > palette_height
    THEN draw_line(c, x, y, IF a.eraser_mode THEN White ELSE a.current_color,
                   IF a.eraser_mode THEN a.brush_size * 3 ELSE a.brush_size)
    ELSE reset_position(c)

\* PaintApp.process_drawing_gesture: the canvas after the call
process_drawing_gesture(c, a, x, y) ==
  IF y > palette_height
    THEN LET color == IF a.eraser_mode THEN White ELSE a.current_color
             thickness == IF a.eraser_mode THEN a.brush_size * 3 ELSE a.brush_size
         IN draw_line(c, x, y, color, thickness)
    ELSE c

\* Which branch of process_selection_gesture a point takes.
selection_hit(u, x, y, frame_width) ==
  IF get_color_from_position(x, y, frame_width) # None THEN "color"
  ELSE IF is_eraser_button_clicked(u, x, y, frame_width) THEN "eraser"
  ELSE IF is_clear_button_clicked(u, x, y, frame_width) THEN "clear"
  ELSE "none"

\* Mutant: the two buttons are tested before the palette.
process_selection_gesture_ButtonsFirst(c, a, u, x, y, frame_width) ==
  IF is_eraser_button_clicked(u, x, y, frame_width)
    THEN [canvas |-> c, app |-> [a EXCEPT !.eraser_mode = ~a.eraser_mode]]
  ELSE IF is_clear_button_clicked(u, x, y, frame_width)
    THEN [canvas |-> clear(c), app |-> a]
  ELSE IF get_color_from_position(x, y, frame_width) # None
    THEN [canvas |-> c,
          app |-> [a EXCEPT !.current_color = get_color_from_position(x, y, frame_width)[1],
                            !.eraser_mode = FALSE]]
  ELSE [canvas |-> c, app |-> a]

\* Mutant: a colour selection leaves eraser_mode as it is.
process_selection_gesture_KeepEraser(c, a, u, x, y, frame_width) ==
  LET color_selection == get_color_from_position(x, y, frame_width)
  IN IF color_selection # None
       THEN [canvas |-> c, app |-> [a EXCEPT !.current_color = color_selection[1]]]
     ELSE IF is_eraser_button_clicked(u, x, y, frame_width)
       THEN [canvas |-> c, app |-> [a EXCEPT !.eraser_mode = ~a.eraser_mode]]
     ELSE IF is_clear_button_clicked(u, x, y, frame_width)
       THEN [canvas |-> clear(c), app |-> a]
     ELSE [canvas |-> c, app |-> a]

\* PaintApp.process_selection_gesture: the canvas and the app after the call
process_selection_gesture(c, a, u, x, y, frame_width) ==
  LET color_selection == get_color_from_position(x, y, frame_width)
  IN IF color_selection # None
       THEN [canvas |-> c,
             app |-> [a EXCEPT !.current_color = color_selection[1],
                               !.eraser_mode = FALSE]]
     ELSE IF is_eraser_button_clicked(u, x, y, frame_width)
       THEN [canvas |-> c, app |-> [a EXCEPT !.eraser_mode = ~a.eraser_mode]]
     ELSE IF is_clear_button_clicked(u, x, y, frame_width)
       THEN [canvas |-> clear(c), app |-> a]
     ELSE [canvas |-> c, app |-> a]

\* Mutant: a Draw hand that is not close enough lifts the pen.
process_frame_hand_HoverLifts(st, u, landmarks, shape) ==
  LET pos == get_index_finger_position(landmarks, shape)
      canvas_x == IntDiv(pos[1] * canvas_width, shape[2])
      canvas_y == IntDiv(pos[2] * canvas_height, shape[1])
      close == is_finger_close_enough(landmarks, depth_threshold)
      a1 == [st.app EXCEPT !.cursor_x = Some(canvas_x), !.cursor_y = Some(canvas_y),
                           !.is_close_enough = close]
  IN IF Intent(landmarks) = "Draw"
       THEN IF close
              THEN [canvas |-> process_drawing_gesture(st.canvas, a1, canvas_x, canvas_y),
                    app |-> a1, drawing |-> TRUE]
              ELSE [canvas |-> reset_position(st.canvas), app |-> a1,
                    drawing |-> st.drawing]
     ELSE IF Intent(landmarks) = "Select"
       THEN LET r == process_selection_gesture(reset_position(st.canvas), a1, u,
                                               canvas_x, canvas_y, canvas_width)
            IN [canvas |-> r.canvas,
                app |-> [r.app EXCEPT !.cursor_x = None, !.cursor_y = None],
                drawing |-> st.drawing]
     ELSE [canvas |-> reset_position(st.canvas), app |-> a1, drawing |-> st.drawing]

\* Mutant: every hand that is not drawing is hit-tested, Idle ones included.
process_frame_hand_IdleSelects(st, u, landmarks, shape) ==
  LET pos == get_index_finger_position(landmarks, shape)
      canvas_x == IntDiv(pos[1] * canvas_width, shape[2])
      canvas_y == IntDiv(pos[2] * canvas_height, shape[1])
      close == is_finger_close_enough(landmarks, depth_threshold)
      a1 == [st.app EXCEPT !.cursor_x = Some(canvas_x), !.cursor_y = Some(canvas_y),
                           !.is_close_enough = close]
  IN IF Intent(landmarks) = "Draw"
       THEN IF close
              THEN [canvas |-> process_drawing_gesture(st.canvas, a1, canvas_x, canvas_y),
                    app |-> a1, drawing |-> TRUE]
              ELSE [canvas |-> st.canvas, app |-> a1, drawing |-> st.drawing]
     ELSE LET r == process_selection_gesture(reset_position(st.canvas), a1, u,
                                             canvas_x, canvas_y, canvas_width)
          IN [canvas |-> r.canvas,
              app |-> [r.app EXCEPT !.cursor_x = None, !.cursor_y = None],
              drawing |-> st.drawing]

\* Mutant: the Draw branch draws whatever the depth check says.
process_frame_hand_NoGate(st, u, landmarks, shape) ==
  LET pos == get_index_finger_position(landmarks, shape)
      canvas_x == IntDiv(pos[1] * canvas_width, shape[2])
      canvas_y == IntDiv(pos[2] * canvas_height, shape[1])
      a1 == [st.app EXCEPT !.cursor_x = Some(canvas_x), !.cursor_y = Some(canvas_y),
                           !.is_close_enough =
                             is_finger_close_enough(landmarks, depth_threshold)]
  IN IF Intent(landmarks) = "Draw"
       THEN [canvas |-> process_drawing_gesture(st.canvas, a1, canvas_x, canvas_y),
             app |-> a1, drawing |-> TRUE]
     ELSE IF Intent(landmarks) = "Select"
       THEN LET r == process_selection_gesture(reset_position(st.canvas), a1, u,
                                               canvas_x, canvas_y, canvas_width)
            IN [canvas |-> r.canvas,
                app |-> [r.app EXCEPT !.cursor_x = None, !.cursor_y = None],
                drawing |-> st.drawing]
     ELSE [canvas |-> reset_position(st.canvas), app |-> a1, drawing |-> st.drawing]

\* The body of process_frame's loop over results.multi_hand_landmarks, for one
\* hand.  st is [canvas, app, drawing].
process_frame_hand(st, u, landmarks, shape) ==
  LET pos == get_index_finger_position(landmarks, shape)
      h == shape[1]
      w == shape[2]
      canvas_x == IntDiv(pos[1] * canvas_width, w)
      canvas_y == IntDiv(pos[2] * canvas_height, h)
      close == is_finger_close_enough(landmarks, depth_threshold)
      a1 == [st.app EXCEPT !.cursor_x = Some(canvas_x), !.cursor_y = Some(canvas_y),
                           !.is_close_enough = close]
      gesture == Intent(landmarks)
  IN IF gesture = "Draw"
       THEN IF close
              THEN [canvas |-> process_drawing_gesture(st.canvas, a1, canvas_x, canvas_y),
                    app |-> a1, drawing |-> TRUE]
              ELSE [canvas |-> st.canvas, app |-> a1, drawing |-> st.drawing]
     ELSE IF gesture = "Select"
       THEN LET r == process_selection_gesture(reset_position(st.canvas), a1, u,
                                               canvas_x, canvas_y, canvas_width)
            IN [canvas |-> r.canvas,
                app |-> [r.app EXCEPT !.cursor_x = None, !.cursor_y = None],
                drawing |-> st.drawing]
     ELSE [canvas |-> reset_position(st.canvas), app |-> a1, drawing |-> st.drawing]

RECURSIVE process_frame_hands(_, _, _, _)
process_frame_hands(st, u, hands, shape) ==
  IF hands = <<>> THEN st
  ELSE process_frame_hands(process_frame_hand(st, u, Head(hands), shape), u,
                           Tail(hands), shape)

\* The status text of process_frame
PaintApp_status(drawing, is_close_enough, has_hands) ==
  IF drawing THEN "DRAWING"
  ELSE IF is_close_enough /\ has_hands THEN "READY TO DRAW"
  ELSE IF has_hands THEN "MOVE CLOSER TO DRAW"
  ELSE "NO HAND DETECTED"

\* PaintApp.process_frame on a frame of the given shape in which the detector
\* found `hands`: [canvas, app, ui, drawing, status] after the call.
process_frame(c, a, u, hands, shape) ==
  LET c0 == IF c.width # canvas_width \/ c.height # canvas_height
              THEN resize(c, canvas_width, canvas_height).canvas
              ELSE c
      a0 == [a EXCEPT !.is_close_enough = FALSE]
      st == IF hands # <<>>
              THEN process_frame_hands([canvas |-> c0, app |-> a0, drawing |-> FALSE],
                                       u, hands, shape)
              ELSE [canvas |-> reset_position(c0),
                    app |-> [a0 EXCEPT !.cursor_x = None, !.cursor_y = None],
                    drawing |-> FALSE]
  IN [canvas |-> st.canvas, app |-> st.app,
      ui |-> draw_buttons(st.canvas.width),
      drawing |-> st.drawing,
      status |-> PaintApp_status(st.drawing, st.app.is_close_enough, hands # <<>>)]

(***************************************************************************)
(* FingertipPaintApp (fingertip_paint.py)                                  *)
(*                                                                         *)
(* Its canvas is a bare image and prev_x, prev_y are fields of the app;   *)
(* the model keeps them in the canvas record (position_buffer stays       *)
(* empty: this program has none).                                          *)
(***************************************************************************)

\* FingertipPaintApp.__init__: np.ones((480, 640, 3)) * 255
legacy_canvas == Canvas_init(640, 480, White)

legacy_init ==
  [current_color |-> Red, brush_size |-> 5, eraser_mode |-> FALSE, drawing_mode |-> TRUE]

\* Which branch of process_hand's selection code a point takes.
legacy_selection_hit(x, y, w) ==
  IF y < palette_height
    THEN (IF 0 <= FloorDiv(x, FloorDiv(w, Len(COLORS)))
             /\ FloorDiv(x, FloorDiv(w, Len(COLORS))) < Len(COLORS)
            THEN "color" ELSE "none")
  ELSE IF w - 210 < x /\ x < w - 110 /\ 10 < y /\ y < 70 THEN "eraser"
  ELSE IF w - 100 < x /\ x < w - 10 /\ 10 < y /\ y < 70 THEN "clear"
  ELSE "none"

\* FingertipPaintApp.process_hand: [canvas, app, drawing] after the call
legacy_process_hand(c, a, landmarks, shape) ==
  LET pos == get_index_finger_position(landmarks, shape)
      x == pos[1]
      y == pos[2]
      h == shape[1]
      w == shape[2]
      gesture == legacy_Intent(landmarks)
      lifted == [c EXCEPT !.prev_x = None, !.prev_y = None]
  IN IF gesture = "Draw"
       THEN IF y > palette_height
              THEN LET color == IF a.eraser_mode THEN White ELSE a.current_color
                       thickness == IF a.eraser_mode THEN a.brush_size * 3 ELSE a.brush_size
                       inked == IF c.prev_x # None /\ c.prev_y # None
                                  THEN Append(c.raster,
                                              line(<<Val(c.prev_x), Val(c.prev_y)>>, <<x, y>>,
                                                   color, thickness, "LINE_8"))
                                  ELSE c.raster
                   IN [canvas |-> [c EXCEPT !.raster = inked, !.prev_x = Some(x),
                                            !.prev_y = Some(y)],
                       app |-> a, drawing |-> TRUE]
              ELSE [canvas |-> c, app |-> a, drawing |-> TRUE]
     ELSE IF gesture = "Select"
       THEN IF y < palette_height
              THEN LET color_box_width == FloorDiv(w, Len(COLORS))
                       color_index == FloorDiv(x, color_box_width)
                   IN IF 0 <= color_index /\ color_index < Len(COLORS)
                        THEN [canvas |-> lifted,
                              app |-> [a EXCEPT !.current_color = palette(color_index),
                                                !.eraser_mode = FALSE],
                              drawing |-> FALSE]
                        ELSE [canvas |-> lifted, app |-> a, drawing |-> FALSE]
            ELSE IF w - 210 < x /\ x < w - 110 /\ 10 < y /\ y < 70
              THEN [canvas |-> lifted, app |-> [a EXCEPT !.eraser_mode = ~a.eraser_mode],
                    drawing |-> FALSE]
            ELSE IF w - 100 < x /\ x < w - 10 /\ 10 < y /\ y < 70
              THEN [canvas |-> [lifted EXCEPT !.raster = <<>>, !.width = w, !.height = h],
                    app |-> a, drawing |-> FALSE]
            ELSE [canvas |-> lifted, app |-> a, drawing |-> FALSE]
     ELSE [canvas |-> lifted, app |-> a, drawing |-> FALSE]

RECURSIVE legacy_process_hands(_, _, _)
legacy_process_hands(st, hands, shape) ==
  IF hands = <<>> THEN st
  ELSE legacy_process_hands(
         legacy_process_hand(st.canvas, st.app, Head(hands), shape), Tail(hands), shape)

\* One pass of FingertipPaintApp.run's loop body up to the status text:
\* [canvas, app, drawing, status]
legacy_frame(c, a, hands, shape) ==
  LET h == shape[1]
      w == shape[2]
      c0 == IF <<c.height, c.width>> # <<h, w>>
              THEN [c EXCEPT !.raster = Append(c.raster, resized(<<c.width, c.height>>, <<w, h>>)),
                             !.width = w, !.height = h]
              ELSE c
      st == IF hands # <<>>
              THEN legacy_process_hands([canvas |-> c0, app |-> a, drawing |-> FALSE],
                                        hands, shape)
              ELSE [canvas |-> [c0 EXCEPT !.prev_x = None, !.prev_y = None],
                    app |-> a, drawing |-> FALSE]
  IN [canvas |-> st.canvas, app |-> st.app, drawing |-> st.drawing,
      status |-> IF st.drawing THEN "DRAWING"
                 ELSE IF hands # <<>> THEN "SELECTION MODE"
                 ELSE "NO HAND DETECTED"]

(***************************************************************************)
(* Frames: what the detector hands to a program                            *)
(***************************************************************************)

\* Hands(max_num_hands=1): the detector returns at most one hand per frame.
max_num_hands == 1

\* Bounds of the model.
MaxMarks == 2
MaxBrushSteps == 1

\* Per finger (index, middle, ring, pinky): is the tip above ("up"), below
\* ("down") or level with ("tie") its PIP joint.
Postures ==
  [point |-> <<"up", "down", "down", "down">>,
   palm  |-> <<"up", "up", "up", "up">>,
   three |-> <<"up", "up", "up", "down">>]

\* The PIP joint's y for a tip at y
pip_y(tip_y, rel) ==
  IF rel = "up" THEN tip_y + 10 ELSE IF rel = "down" THEN tip_y - 10 ELSE tip_y

\* A hand in posture p whose index fingertip is at normalized (px, py, pz)
MakeHand(p, px, py, pz) ==
  [n \in LandmarkNames |->
     IF n = "INDEX_FINGER_TIP" THEN [x |-> px, y |-> py, z |-> pz]
     ELSE IF n = "INDEX_FINGER_PIP" THEN [x |-> px, y |-> pip_y(py, p[1]), z |-> 0]
     ELSE IF n \in {"MIDDLE_FINGER_TIP", "RING_FINGER_TIP", "PINKY_TIP", "THUMB_TIP"}
       THEN [x |-> 50, y |-> 50, z |-> 0]
     ELSE IF n = "MIDDLE_FINGER_PIP" THEN [x |-> 50, y |-> pip_y(50, p[2]), z |-> 0]
     ELSE IF n = "RING_FINGER_PIP" THEN [x |-> 50, y |-> pip_y(50, p[3]), z |-> 0]
     ELSE IF n = "PINKY_PIP" THEN [x |-> 50, y |-> pip_y(50, p[4]), z |-> 0]
     ELSE [x |-> 50, y |-> 50, z |-> 0]]

\* Normalized fingertip positions (hundredths): two columns, a row inside the
\* palette band and a row below it; a depth on either side of the threshold.
HandXs == {20, 60}
HandYs == {5, 50}
HandZs == {-10, 0}

\* The pointing hand takes every position; the open palm and the three-finger
\* hand stay in the right column.
FrameHands ==
  {MakeHand(Postures.point, px, py, pz) : px \in HandXs, py \in HandYs, pz \in HandZs}
    \cup {MakeHand(Postures.palm, 60, py, pz) : py \in HandYs, pz \in HandZs}
    \cup {MakeHand(Postures.three, 60, 50, pz) : pz \in HandZs}

\* results.multi_hand_landmarks: None (modelled <<>>) or the detected hands
HandLists == UNION {[1..n -> FrameHands] : n \in 0..max_num_hands}

\* frame.shape of the camera, (h, w)
CamShapes == {<<480, 640>>, <<720, 1280>>}

(***************************************************************************)
(* History of a run                                                        *)
(*   intent     the last frame's intent ("NoHand" without a hand)          *)
(*   hit        the branch a Select frame's hit test took                  *)
(*   pen        "never": no point committed yet; "down": a point was       *)
(*              committed and no hand-less or non-Draw frame came since;   *)
(*              "gap": one came, and no point was committed after it       *)
(*   committed  the last frame committed a point                           *)
(*   after_gap  pen was "gap" when the last frame began                    *)
(*   mark       the drawing call the last frame made ("none" without one)  *)
(***************************************************************************)

hist_init ==
  [intent |-> "n/a", hit |-> "n/a", pen |-> "never",
   committed |-> FALSE, after_gap |-> FALSE, mark |-> "none"]

\* The drawing calls c2's raster holds beyond c1's (none after a clear).
new_marks(c1, c2) ==
  IF Len(c2.raster) > Len(c1.raster)
    THEN SubSeq(c2.raster, Len(c1.raster) + 1, Len(c2.raster))
    ELSE <<>>

drawn_marks(c1, c2) == SelectSeq(new_marks(c1, c2), LAMBDA m : m.op \in {"circle", "line"})

hist_frame(h, c1, c2, intent, hit) ==
  LET drawn == drawn_marks(c1, c2)
      committed == /\ intent = "Draw"
                   /\ \/ drawn # <<>>
                      \/ <<c2.prev_x, c2.prev_y>> # <<c1.prev_x, c1.prev_y>>
  IN [intent |-> intent, hit |-> hit,
      pen |-> IF committed THEN "down"
              ELSE IF intent \in {"NoHand", "Select", "Idle"} /\ h.pen # "never" THEN "gap"
              ELSE h.pen,
      committed |-> committed,
      after_gap |-> h.pen = "gap",
      mark |-> IF drawn = <<>> THEN "none" ELSE drawn[Len(drawn)].op]

(***************************************************************************)
(* Spec: one of the two programs, run frame by frame                       *)
(***************************************************************************)

Init ==
  /\ program \in {"PaintApp", "FingertipPaintApp"}
  /\ pc = "frame"
  /\ cam \in IF program = "PaintApp" THEN {<<480, 640>>} ELSE CamShapes
  /\ canvas = IF program = "PaintApp" THEN PaintApp_canvas ELSE legacy_canvas
  /\ app = IF program = "PaintApp" THEN PaintApp_init ELSE legacy_init
  /\ ui = UI_init
  /\ out = [drawing |-> FALSE, status |-> "n/a"]
  /\ hist = hist_init
  /\ guard = Unused
  /\ arg = Unused
  /\ ret = Unused

\* PaintApp.run: cap.read() succeeds and process_frame runs on the frame.
PaintAppFrame ==
  /\ program = "PaintApp" /\ pc = "frame"
  /\ \E hands \in HandLists :
       LET r == process_frame(canvas, app, ui, hands, cam)
           intent == IF hands = <<>> THEN "NoHand" ELSE Intent(hands[Len(hands)])
           pos == get_index_finger_position(hands[Len(hands)], cam)
           hit == IF intent = "Select"
                    THEN selection_hit(ui, IntDiv(pos[1] * canvas_width, cam[2]),
                                       IntDiv(pos[2] * canvas_height, cam[1]), canvas_width)
                    ELSE "n/a"
       IN /\ Len(r.canvas.raster) <= MaxMarks
          /\ canvas' = r.canvas
          /\ app' = r.app
          /\ ui' = r.ui
          /\ out' = [drawing |-> r.drawing, status |-> r.status]
          /\ hist' = hist_frame(hist, canvas, r.canvas, intent, hit)
  /\ pc' = "key"
  /\ UNCHANGED <<program, cam, guard, arg, ret>>

\* FingertipPaintApp.run: cap.read() succeeds and the loop body runs.
LegacyFrame ==
  /\ program = "FingertipPaintApp" /\ pc = "frame"
  /\ \E hands \in HandLists :
       LET r == legacy_frame(canvas, app, hands, cam)
           intent == IF hands = <<>> THEN "NoHand" ELSE legacy_Intent(hands[Len(hands)])
           pos == get_index_finger_position(hands[Len(hands)], cam)
           hit == IF intent = "Select"
                    THEN legacy_selection_hit(pos[1], pos[2], cam[2])
                    ELSE "n/a"
       IN /\ Len(r.canvas.raster) <= MaxMarks
          /\ canvas' = r.canvas
          /\ app' = r.app
          /\ out' = [drawing |-> r.drawing, status |-> r.status]
          /\ hist' = hist_frame(hist, canvas, r.canvas, intent, hit)
  /\ pc' = "key"
  /\ UNCHANGED <<program, cam, ui, guard, arg, ret>>

\* cap.read() fails: both loops break.
ReadFail ==
  /\ pc = "frame"
  /\ pc' = "done"
  /\ UNCHANGED <<program, cam, canvas, app, ui, out, hist, guard, arg, ret>>

\* 'q': both loops break.
KeyQuit ==
  /\ pc = "key"
  /\ pc' = "done"
  /\ UNCHANGED <<program, cam, canvas, app, ui, out, hist, guard, arg, ret>>

\* 's': the canvas is written to a file (both programs); no field changes.
KeySave ==
  /\ pc = "key"
  /\ pc' = "frame"
  /\ UNCHANGED <<program, cam, canvas, app, ui, out, hist, guard, arg, ret>>

\* No key, or a key that changes nothing the model keeps ('v' toggles the
\* preview overlay of the display).
KeyOther ==
  /\ pc = "key"
  /\ pc' = "frame"
  /\ UNCHANGED <<program, cam, canvas, app, ui, out, hist, guard, arg, ret>>

\* 'c' (PaintApp only): self.canvas.clear()
KeyClear ==
  /\ program = "PaintApp" /\ pc = "key"
  /\ canvas' = clear(canvas)
  /\ pc' = "frame"
  /\ UNCHANGED <<program, cam, app, ui, out, hist, guard, arg, ret>>

\* '+' or '=' (PaintApp only): min(50, brush_size + 1)
KeyPlus ==
  /\ program = "PaintApp" /\ pc = "key"
  /\ app.brush_size < PaintApp_init.brush_size + MaxBrushSteps
  /\ app' = [app EXCEPT !.brush_size = Min(MaxBrush, app.brush_size + 1)]
  /\ pc' = "frame"
  /\ UNCHANGED <<program, cam, canvas, ui, out, hist, guard, arg, ret>>

\* '-' or '_' (PaintApp only): max(1, brush_size - 1)
KeyMinus ==
  /\ program = "PaintApp" /\ pc = "key"
  /\ app.brush_size > PaintApp_init.brush_size - MaxBrushSteps
  /\ app' = [app EXCEPT !.brush_size = Max(MinBrush, app.brush_size - 1)]
  /\ pc' = "frame"
  /\ UNCHANGED <<program, cam, canvas, ui, out, hist, guard, arg, ret>>

Next ==
  \/ PaintAppFrame
  \/ LegacyFrame
  \/ ReadFail
  \/ KeyQuit
  \/ KeySave
  \/ KeyOther
  \/ KeyClear
  \/ KeyPlus
  \/ KeyMinus

Spec == Init /\ [][Next]_vars

\* C1: a point committed by the first committing Draw frame after a gap (a
\* frame without a hand, or with Select or Idle intent, since the last
\* committed point) is never joined by a line to an earlier point; PaintApp
\* draws it as a dot.
C1_PenLiftIsolates ==
  (hist.committed /\ hist.after_gap)
    => /\ hist.mark # "line"
       /\ program = "PaintApp" => hist.mark = "circle"

\* C1 witness: PaintApp committed a point, a gap followed, and the next
\* committed point was drawn as a second dot beside the first mark.
C1_Witness ==
  /\ program = "PaintApp"
  /\ hist.committed /\ hist.after_gap /\ hist.mark = "circle"
  /\ Len(canvas.raster) = 2
  /\ canvas.raster[1].p1 # canvas.raster[2].p1

IsPrefix(s, t) == Len(s) <= Len(t) /\ SubSeq(t, 1, Len(s)) = s

\* A Select frame whose hit test takes the clear branch.
ClearGesture == pc = "frame" /\ hist'.intent = "Select" /\ hist'.hit = "clear"

\* C2: every step keeps all the drawing calls the raster holds, except a
\* clear ('c' key or a Select hit on the clear control), which empties it.
C2_OnlyClearResets ==
  [][ \/ IsPrefix(canvas.raster, canvas'.raster)
      \/ (canvas'.raster = <<>> /\ (KeyClear \/ ClearGesture)) ]_vars

\* C2 witness: the hand is lost (or a colour is selected, or the frame is
\* resized) while the raster holds ink, and the ink is still there.
C2_Witness ==
  /\ pc = "key"
  /\ hist.intent \in {"NoHand", "Select", "Idle"}
  /\ hist.pen = "gap"
  /\ \E k \in 1..Len(canvas.raster) : canvas.raster[k].op \in {"circle", "line"}

(***************************************************************************)
(* SpecClassifier: the classifier applied to every snapshot whose finger   *)
(* landmarks have y in 0..MaxY (the thumb tip above or below its joint)    *)
(***************************************************************************)

MaxY == 2

FingerMarks == {FingerTips[i] : i \in 1..4} \cup {FingerPips[i] : i \in 1..4}

Snapshot(ys, thumb_y) ==
  [n \in LandmarkNames |->
     IF n \in FingerMarks THEN [x |-> 50, y |-> ys[n], z |-> 0]
     ELSE IF n = "THUMB_TIP" THEN [x |-> 50, y |-> thumb_y, z |-> 0]
     ELSE [x |-> 50, y |-> 1, z |-> 0]]

Unclassified ==
  [draw |-> FALSE, select |-> FALSE, gesture |-> "n/a",
   legacy_draw |-> FALSE, legacy_gesture |-> "n/a"]

InitClassifier ==
  /\ program = "none"
  /\ pc = "classify"
  /\ \E ys \in [FingerMarks -> 0..MaxY], thumb_y \in {0, MaxY} : arg = Snapshot(ys, thumb_y)
  /\ ret = Unclassified
  /\ cam = Unused /\ canvas = Unused /\ app = Unused /\ ui = Unused
  /\ out = Unused /\ hist = Unused /\ guard = Unused

Classify ==
  /\ pc = "classify"
  /\ ret' = [draw |-> is_index_finger_up(arg), select |-> is_all_fingers_up(arg),
             gesture |-> Intent(arg),
             legacy_draw |-> legacy_is_index_finger_up(arg),
             legacy_gesture |-> legacy_Intent(arg)]
  /\ pc' = "classified"
  /\ UNCHANGED <<program, cam, canvas, app, ui, out, hist, guard, arg>>

NextClassifier == Classify

SpecClassifier == InitClassifier /\ [][NextClassifier]_vars

\* Is finger i (1 index .. 4 pinky) of the snapshot up, down, level?
tip_above(lm, i) == lm[FingerTips[i]].y < lm[FingerPips[i]].y
tip_below(lm, i) == lm[FingerTips[i]].y > lm[FingerPips[i]].y
tip_level(lm, i) == lm[FingerTips[i]].y = lm[FingerPips[i]].y
count_up(lm) == Cardinality({i \in 1..4 : tip_above(lm, i)})

\* C6: a snapshot with the index tip above its PIP joint and the middle, ring
\* and pinky tips each below theirs is classified Draw by both classifiers,
\* whatever the thumb landmarks are.
C6_PointingIsDraw ==
  (pc = "classified" /\ tip_above(arg, 1) /\ \A i \in 2..4 : tip_below(arg, i))
    => /\ ret.draw /\ ret.gesture = "Draw"
       /\ ret.legacy_draw /\ ret.legacy_gesture = "Draw"

\* C6 witness: a pointing snapshot whose thumb is raised has been classified Draw.
C6_Witness ==
  /\ pc = "classified" /\ tip_above(arg, 1) /\ \A i \in 2..4 : tip_below(arg, i)
  /\ arg["THUMB_TIP"].y < arg["THUMB_IP"].y
  /\ ret.gesture = "Draw"

\* C7: a snapshot with all 4 of index, middle, ring, pinky up is classified
\* Select; a snapshot with 3 or fewer of them up is never classified Select.
C7_SelectNeedsFour ==
  pc = "classified" =>
    /\ count_up(arg) = 4 => (ret.select /\ ret.gesture = "Select")
    /\ count_up(arg) <= 3 => (~ret.select /\ ret.gesture # "Select"
                                /\ ret.legacy_gesture # "Select")

\* C7 witness: a snapshot with exactly 3 of the four fingers up has been
\* classified and is not Select.
C7_Witness ==
  /\ pc = "classified" /\ count_up(arg) = 3
  /\ ~ret.select /\ ret.gesture = "Idle"

\* C8: no snapshot is both Draw and Select; the intent is Idle exactly when it
\* is neither; a snapshot with any of the four tips level with its PIP joint
\* is Idle.
C8_IntentsExclusive ==
  pc = "classified" =>
    /\ ~(ret.draw /\ ret.select)
    /\ ret.gesture \in {"Draw", "Select", "Idle"}
    /\ ret.gesture = "Draw" <=> ret.draw
    /\ ret.gesture = "Select" <=> ret.select
    /\ ret.gesture = "Idle" <=> (~ret.draw /\ ~ret.select)
    /\ (\E i \in 1..4 : tip_level(arg, i)) => ret.gesture = "Idle"

\* C8 witness: an otherwise pointing hand whose middle tip is level with its
\* joint has been classified Idle.
C8_Witness ==
  /\ pc = "classified" /\ tip_above(arg, 1) /\ tip_level(arg, 2)
  /\ tip_below(arg, 3) /\ tip_below(arg, 4)
  /\ ret.gesture = "Idle"

(***************************************************************************)
(* SpecGuard: an OutlierGuard with the default parameters, fed samples     *)
(***************************************************************************)

GuardXs == {0, 1, 30, 50, 90, 200}
GuardYs == {0, 1}

NoCall == [op |-> "none", before |-> OutlierGuard_init(max_jump, dead_zone), x |-> 0, y |-> 0]
NoResult == [x |-> 0, y |-> 0, is_valid |-> TRUE]

InitGuard ==
  /\ program = "none"
  /\ pc = "guard"
  /\ guard = OutlierGuard_init(max_jump, dead_zone)
  /\ arg = NoCall
  /\ ret = NoResult
  /\ cam = Unused /\ canvas = Unused /\ app = Unused /\ ui = Unused
  /\ out = Unused /\ hist = Unused

GuardFilter ==
  /\ pc = "guard"
  /\ \E x \in GuardXs, y \in GuardYs :
       LET r == OutlierGuard_filter(guard, x, y)
       IN /\ guard' = r.guard
          /\ arg' = [op |-> "filter", before |-> guard, x |-> x, y |-> y]
          /\ ret' = [x |-> r.x, y |-> r.y, is_valid |-> r.is_valid]
  /\ UNCHANGED <<program, pc, cam, canvas, app, ui, out, hist>>

GuardReset ==
  /\ pc = "guard"
  /\ guard' = OutlierGuard_reset(guard)
  /\ arg' = [op |-> "reset", before |-> guard, x |-> 0, y |-> 0]
  /\ ret' = NoResult
  /\ UNCHANGED <<program, pc, cam, canvas, app, ui, out, hist>>

NextGuard == GuardFilter \/ GuardReset

SpecGuard == InitGuard /\ [][NextGuard]_vars

\* The call just made was filter(x, y) on a guard holding a position.
filtered_with_position == arg.op = "filter" /\ arg.before.prev_pos # None

\* C9: a guard holding a position with previous velocity 0 that is given a
\* sample farther than max_jump from that position returns the held position
\* with is_valid False, and keeps holding it.
C9_OutlierRejected ==
  (/\ filtered_with_position
   /\ arg.before.prev_velocity2 = 0
   /\ distance2(arg.before, arg.x, arg.y) > max_jump * max_jump)
    => /\ ret = [x |-> arg.before.prev_pos[1], y |-> arg.before.prev_pos[2],
                 is_valid |-> FALSE]
       /\ guard = arg.before

\* C9 witness: such a sample has been given and rejected.
C9_Witness ==
  /\ filtered_with_position
  /\ arg.before.prev_velocity2 = 0
  /\ distance2(arg.before, arg.x, arg.y) > max_jump * max_jump
  /\ ~ret.is_valid
  /\ <<ret.x, ret.y>> # <<arg.x, arg.y>>

\* C10: a guard holding position p that is given a sample closer than
\* dead_zone to p returns exactly p with is_valid True.
C10_DeadZoneAbsorbs ==
  (/\ filtered_with_position
   /\ distance2(arg.before, arg.x, arg.y) < dead_zone * dead_zone)
    => /\ ret = [x |-> arg.before.prev_pos[1], y |-> arg.before.prev_pos[2],
                 is_valid |-> TRUE]
       /\ guard.prev_pos = arg.before.prev_pos

\* C10 witness: a sample different from p but inside the dead zone has been
\* absorbed.
C10_Witness ==
  /\ filtered_with_position
  /\ distance2(arg.before, arg.x, arg.y) < dead_zone * dead_zone
  /\ <<arg.x, arg.y>> # arg.before.prev_pos
  /\ ret.is_valid
  /\ <<ret.x, ret.y>> = arg.before.prev_pos

(***************************************************************************)
(* SpecSelect: PaintApp.process_selection_gesture applied once, to every   *)
(* point of a grid, at several frame widths, in either eraser mode, with   *)
(* the button bounds stored (draw_buttons has run) or not                  *)
(***************************************************************************)

SelectWidths == {500, 640, 900, 1000, 1280}
SelectXs(frame_width) == {x \in 0..frame_width : x % 40 = 0}
SelectYs == {5, 40, 60, 85}

\* A canvas of the given width that already carries a dot.
inked_canvas(frame_width) ==
  draw_line(Canvas_init(frame_width, canvas_height, White), 100, 300,
            PaintApp_init.current_color, PaintApp_init.brush_size)

InitSelect ==
  /\ program = "none"
  /\ pc = "select"
  /\ \E fw \in SelectWidths, e \in BOOLEAN, drawn \in BOOLEAN :
       /\ \E x \in SelectXs(fw), y \in SelectYs :
            arg = [frame_width |-> fw, x |-> x, y |-> y, eraser_mode |-> e]
       /\ canvas = inked_canvas(fw)
       /\ app = [PaintApp_init EXCEPT !.eraser_mode = e]
       /\ ui = IF drawn THEN draw_buttons(fw) ELSE UI_init
  /\ ret = "n/a"
  /\ cam = Unused /\ out = Unused /\ hist = Unused /\ guard = Unused

ApplySelection ==
  /\ pc = "select"
  /\ LET r == process_selection_gesture(canvas, app, ui, arg.x, arg.y, arg.frame_width)
     IN /\ canvas' = r.canvas
        /\ app' = r.app
  /\ ret' = selection_hit(ui, arg.x, arg.y, arg.frame_width)
  /\ pc' = "selected"
  /\ UNCHANGED <<program, cam, ui, out, hist, guard, arg>>

NextSelect == ApplySelection

SpecSelect == InitSelect /\ [][NextSelect]_vars

\* C4: a selection that hits a palette colour leaves eraser_mode False,
\* whatever eraser_mode was before.
C4_ColourClearsEraser ==
  (pc = "selected" /\ ret = "color") => app.eraser_mode = FALSE

\* C4 witness: a colour has been selected while the eraser was on, and the
\* eraser is off afterwards.
C4_Witness ==
  /\ pc = "selected" /\ ret = "color"
  /\ arg.eraser_mode = TRUE
  /\ app.eraser_mode = FALSE

\* C5 as stated: a selection point strictly inside the drawn rectangle of
\* palette cell i sets the active colour to palette[i].
C5_HitMatchesDrawnCell ==
  pc = "selected" =>
    \A i \in 0..(Len(COLORS) - 1) :
      strictly_inside(arg.x, arg.y, palette_cell(i, arg.frame_width))
        => app.current_color = palette(i)

(***************************************************************************)
(* SpecCanvas: a 100x100 white Canvas driven by up to MaxCanvasCalls calls;*)
(* hist is the list of the calls made since construction.  A point is fed  *)
(* either to Canvas.draw_line or to PaintApp.process_drawing_gesture.      *)
(***************************************************************************)

MaxCanvasCalls == 3

FeedPoints == {<<10, 50>>, <<20, 50>>, <<30, 50>>, <<20, 90>>}
FeedColors == {Black, Red}
FeedRoutes == {"draw_line", "process_drawing_gesture"}
ResizeShapes == {<<200, 150>>, <<0, 100>>}

feed(route, pt, color, thickness) ==
  [op |-> route, x |-> pt[1], y |-> pt[2], color |-> color, thickness |-> thickness]

InitCanvas ==
  /\ program = "none"
  /\ pc = "canvas"
  /\ canvas = Canvas_init(100, 100, White)
  /\ hist = <<>>
  /\ cam = Unused /\ app = Unused /\ ui = Unused /\ out = Unused
  /\ guard = Unused /\ arg = Unused /\ ret = Unused

CanvasFeed ==
  /\ pc = "canvas" /\ Len(hist) < MaxCanvasCalls
  /\ \E route \in FeedRoutes, pt \in FeedPoints, color \in FeedColors :
       LET thickness == 1
           a == [PaintApp_init EXCEPT !.current_color = color, !.brush_size = thickness]
       IN /\ canvas' = IF route = "draw_line"
                         THEN draw_line(canvas, pt[1], pt[2], color, thickness)
                         ELSE process_drawing_gesture(canvas, a, pt[1], pt[2])
          /\ hist' = Append(hist, feed(route, pt, color, thickness))
  /\ UNCHANGED <<program, pc, cam, app, ui, out, guard, arg, ret>>

CanvasResetPosition ==
  /\ pc = "canvas" /\ Len(hist) < MaxCanvasCalls
  /\ canvas' = reset_position(canvas)
  /\ hist' = Append(hist, [op |-> "reset_position"])
  /\ UNCHANGED <<program, pc, cam, app, ui, out, guard, arg, ret>>

CanvasClear ==
  /\ pc = "canvas" /\ Len(hist) < MaxCanvasCalls
  /\ canvas' = clear(canvas)
  /\ hist' = Append(hist, [op |-> "clear"])
  /\ UNCHANGED <<program, pc, cam, app, ui, out, guard, arg, ret>>

CanvasResize ==
  /\ pc = "canvas" /\ Len(hist) < MaxCanvasCalls
  /\ \E wh \in ResizeShapes :
       LET r == resize(canvas, wh[1], wh[2])
       IN /\ canvas' = r.canvas
          /\ hist' = Append(hist, [op |-> "resize", width |-> wh[1], height |-> wh[2],
                                   raised |-> r.raised])
  /\ UNCHANGED <<program, pc, cam, app, ui, out, guard, arg, ret>>

NextCanvas == CanvasFeed \/ CanvasResetPosition \/ CanvasClear \/ CanvasResize

SpecCanvas == InitCanvas /\ [][NextCanvas]_vars

\* The end-to-end feed: (10,50), (20,50), (30,50), black, thickness 1.
scenario_feed(route) ==
  << feed(route, <<10, 50>>, Black, 1), feed(route, <<20, 50>>, Black, 1),
     feed(route, <<30, 50>>, Black, 1) >>

\* The x and y coordinates the drawing calls of a raster name, and its colours.
ink_xs(raster) == UNION {{raster[k].p1[1], raster[k].p2[1]} : k \in 1..Len(raster)}
ink_ys(raster) == UNION {{raster[k].p1[2], raster[k].p2[2]} : k \in 1..Len(raster)}
ink_colors(raster) == {raster[k].color : k \in 1..Len(raster)}

\* C3 as stated: after the end-to-end feed the ink is black, lies on row 50
\* and spans exactly x from 10 to 30.
C3_SegmentSpans10To30 ==
  (\E route \in FeedRoutes : hist = scenario_feed(route))
    => /\ canvas.raster # <<>>
       /\ ink_colors(canvas.raster) = {Black}
       /\ ink_ys(canvas.raster) = {50}
       /\ \A x \in ink_xs(canvas.raster) : 10 <= x /\ x <= 30
       /\ 10 \in ink_xs(canvas.raster) /\ 30 \in ink_xs(canvas.raster)

\* C3 amended: fed to Canvas.draw_line, the three points commit the moving
\* averages (10,50), (15,50), (20,50): a black dot at (10,50) and black
\* segments (10,50)-(15,50) and (15,50)-(20,50), so the ink ends at x = 20;
\* fed through PaintApp.process_drawing_gesture they lie in the palette band
\* (y <= 80) and nothing is drawn.
C3_SegmentSpans10To20 ==
  /\ hist = scenario_feed("draw_line")
       => /\ canvas.raster = << circle(<<10, 50>>, 0, Black),
                                line(<<10, 50>>, <<15, 50>>, Black, 1, "LINE_AA"),
                                line(<<15, 50>>, <<20, 50>>, Black, 1, "LINE_AA") >>
          /\ <<canvas.prev_x, canvas.prev_y>> = <<Some(20), Some(50)>>
  /\ hist = scenario_feed("process_drawing_gesture")
       => canvas = Canvas_init(100, 100, White)

\* C3 witness: the three points have been fed to draw_line and three drawing
\* calls were made, the last ending at x = 20.
C3_Witness ==
  /\ hist = scenario_feed("draw_line")
  /\ Len(canvas.raster) = 3
  /\ canvas.raster[3].p2 = <<20, 50>>

(***************************************************************************)
(* OneEuroFilter and ExponentialSmoothing (filters.py)                     *)
(*                                                                         *)
(* Signal values, derivatives and cutoffs are kept in thousandths; the     *)
(* smoothing factors too.  Every product is rounded toward zero to a       *)
(* thousandth, where the code rounds to the nearest double.                *)
(***************************************************************************)

\* OneEuroFilter.__init__(freq=30.0, min_cutoff=1.0, beta=0.007, dcutoff=1.0);
\* beta in thousandths
freq == 30
min_cutoff == 1
beta == 7
dcutoff == 1

\* ExponentialSmoothing.__init__(alpha=0.45), in hundredths
alpha == 45

milli(v) == v * 1000

Abs(v) == IF v < 0 THEN 0 - v ELSE v

OneEuroFilter_init == [x_prev |-> None, dx_prev |-> 0]

\* OneEuroFilter._smoothing_factor: 1 / (1 + tau / te) with tau = 1 / (2 pi cutoff)
\* and te = 1 / freq, that is 2 pi cutoff / (2 pi cutoff + freq); 2 pi is
\* taken as 6.283.  cutoff and the result are in thousandths.
smoothing_factor(cutoff) ==
  LET two_pi_cutoff == IntDiv(6283 * cutoff, 1000)
  IN IntDiv(1000 * two_pi_cutoff, two_pi_cutoff + milli(freq))

\* Mutant: the first call returns x and records nothing.
OneEuroFilter_filter_NoRecord(f, x) ==
  IF f.x_prev = None
    THEN [filter |-> f, value |-> x]
    ELSE [filter |-> f, value |-> x]

\* OneEuroFilter.filter: the filter after the call and the returned value
OneEuroFilter_filter(f, x) ==
  IF f.x_prev = None
    THEN [filter |-> [x_prev |-> Some(x), dx_prev |-> 0], value |-> x]
    ELSE LET dx == x - Val(f.x_prev)
             alpha_d == smoothing_factor(milli(dcutoff))
             dx_smooth == IntDiv(alpha_d * dx + (1000 - alpha_d) * f.dx_prev, 1000)
             cutoff == milli(min_cutoff) + IntDiv(beta * Abs(dx_smooth), 1000)
             a == smoothing_factor(cutoff)
             x_filtered == IntDiv(a * x + (1000 - a) * Val(f.x_prev), 1000)
         IN [filter |-> [x_prev |-> Some(x_filtered), dx_prev |-> dx_smooth],
             value |-> x_filtered]

\* Mutant: reset forgets the value and keeps the smoothed derivative.
OneEuroFilter_reset_KeepDerivative(f) == [f EXCEPT !.x_prev = None]

\* OneEuroFilter.reset
OneEuroFilter_reset(f) == [x_prev |-> None, dx_prev |-> 0]

ExponentialSmoothing_init == [value |-> None]

\* ExponentialSmoothing.filter
ExponentialSmoothing_filter(f, x) ==
  IF f.value = None
    THEN [filter |-> [value |-> Some(x)], value |-> x]
    ELSE LET v == IntDiv(alpha * x + (100 - alpha) * Val(f.value), 100)
         IN [filter |-> [value |-> Some(v)], value |-> v]

\* ExponentialSmoothing.reset
ExponentialSmoothing_reset(f) == [value |-> None]

(***************************************************************************)
(* SpecFilter: one filter of each kind, given up to MaxFilterCalls calls   *)
(***************************************************************************)

MaxFilterCalls == 3

\* Raw values, in pixels
FilterValues == {0, 10, 100}

filters_init == [euro |-> OneEuroFilter_init, exp |-> ExponentialSmoothing_init]

InitFilter ==
  /\ program = "none"
  /\ pc = "filter"
  /\ guard = filters_init
  /\ arg = [op |-> "none", x |-> 0, before |-> filters_init]
  /\ ret = 0
  /\ hist = 0
  /\ cam = Unused /\ canvas = Unused /\ app = Unused /\ ui = Unused /\ out = Unused

EuroFilter ==
  /\ pc = "filter" /\ hist < MaxFilterCalls
  /\ \E v \in FilterValues :
       LET r == OneEuroFilter_filter(guard.euro, milli(v))
       IN /\ guard' = [guard EXCEPT !.euro = r.filter]
          /\ arg' = [op |-> "OneEuroFilter.filter", x |-> milli(v), before |-> guard]
          /\ ret' = r.value
  /\ hist' = hist + 1
  /\ UNCHANGED <<program, pc, cam, canvas, app, ui, out>>

EuroReset ==
  /\ pc = "filter" /\ hist < MaxFilterCalls
  /\ guard' = [guard EXCEPT !.euro = OneEuroFilter_reset(guard.euro)]
  /\ arg' = [op |-> "OneEuroFilter.reset", x |-> 0, before |-> guard]
  /\ ret' = 0
  /\ hist' = hist + 1
  /\ UNCHANGED <<program, pc, cam, canvas, app, ui, out>>

ExpFilter ==
  /\ pc = "filter" /\ hist < MaxFilterCalls
  /\ \E v \in FilterValues :
       LET r == ExponentialSmoothing_filter(guard.exp, milli(v))
       IN /\ guard' = [guard EXCEPT !.exp = r.filter]
          /\ arg' = [op |-> "ExponentialSmoothing.filter", x |-> milli(v), before |-> guard]
          /\ ret' = r.value
  /\ hist' = hist + 1
  /\ UNCHANGED <<program, pc, cam, canvas, app, ui, out>>

ExpReset ==
  /\ pc = "filter" /\ hist < MaxFilterCalls
  /\ guard' = [guard EXCEPT !.exp = ExponentialSmoothing_reset(guard.exp)]
  /\ arg' = [op |-> "ExponentialSmoothing.reset", x |-> 0, before |-> guard]
  /\ ret' = 0
  /\ hist' = hist + 1
  /\ UNCHANGED <<program, pc, cam, canvas, app, ui, out>>

NextFilter == EuroFilter \/ EuroReset \/ ExpFilter \/ ExpReset

SpecFilter == InitFilter /\ [][NextFilter]_vars

\* v lies strictly between a and b
strictly_between(v, a, b) == (a < v /\ v < b) \/ (b < v /\ v < a)

\* C11: the first call of filter(v) on a new or reset OneEuroFilter or
\* ExponentialSmoothing returns v and records v; a later call with another
\* value returns a blend strictly between the recorded value and the new one.
C11_FirstSamplePassesThrough ==
  /\ (arg.op = "OneEuroFilter.filter" /\ arg.before.euro.x_prev = None)
       => (ret = arg.x /\ guard.euro = [x_prev |-> Some(arg.x), dx_prev |-> 0])
  /\ (arg.op = "ExponentialSmoothing.filter" /\ arg.before.exp.value = None)
       => (ret = arg.x /\ guard.exp.value = Some(arg.x))
  /\ (arg.op = "OneEuroFilter.filter" /\ arg.before.euro.x_prev # None
        /\ arg.before.euro.x_prev # Some(arg.x))
       => (strictly_between(ret, Val(arg.before.euro.x_prev), arg.x)
           /\ guard.euro.x_prev = Some(ret))
  /\ (arg.op = "ExponentialSmoothing.filter" /\ arg.before.exp.value # None
        /\ arg.before.exp.value # Some(arg.x))
       => (strictly_between(ret, Val(arg.before.exp.value), arg.x)
           /\ guard.exp.value = Some(ret))

\* C11 witness: a OneEuroFilter that recorded a first sample of 10
\* has blended a second sample of 100 against it.
C11_Witness ==
  /\ arg.op = "OneEuroFilter.filter"
  /\ arg.before.euro = [x_prev |-> Some(milli(10)), dx_prev |-> 0]
  /\ arg.x = milli(100)
  /\ strictly_between(ret, milli(10), milli(100))

(***************************************************************************)
(* SpecPen: a 100x100 Canvas of any of several background colours, given   *)
(* up to MaxPenCalls calls.  arg is the last call, with the canvas it was  *)
(* made on (before) and the call made before it (prev_op); ret tells       *)
(* whether the call raised.                                                *)
(***************************************************************************)

MaxPenCalls == 4

PenBackgrounds == {White, Black}
PenPoints == {<<10, 50>>, <<40, 50>>, <<40, 20>>}
PenThicknesses == {1, 4}
PenShapes == {<<200, 150>>, <<0, 100>>, <<100, 0>>}

InitPen ==
  /\ program = "none"
  /\ pc = "pen"
  /\ \E bg \in PenBackgrounds : canvas = Canvas_init(100, 100, bg)
  /\ arg = [op |-> "__init__", prev_op |-> "none"]
  /\ ret = [raised |-> FALSE]
  /\ hist = 0
  /\ cam = Unused /\ app = Unused /\ ui = Unused /\ out = Unused /\ guard = Unused

PenDrawLine ==
  /\ pc = "pen" /\ hist < MaxPenCalls
  /\ \E pt \in PenPoints, thickness \in PenThicknesses :
       /\ canvas' = draw_line(canvas, pt[1], pt[2], Red, thickness)
       /\ arg' = [op |-> "draw_line", prev_op |-> arg.op, before |-> canvas,
                  x |-> pt[1], y |-> pt[2], color |-> Red, thickness |-> thickness]
  /\ ret' = [raised |-> FALSE]
  /\ hist' = hist + 1
  /\ UNCHANGED <<program, pc, cam, app, ui, out, guard>>

PenResetPosition ==
  /\ pc = "pen" /\ hist < MaxPenCalls
  /\ canvas' = reset_position(canvas)
  /\ arg' = [op |-> "reset_position", prev_op |-> arg.op, before |-> canvas]
  /\ ret' = [raised |-> FALSE]
  /\ hist' = hist + 1
  /\ UNCHANGED <<program, pc, cam, app, ui, out, guard>>

PenClear ==
  /\ pc = "pen" /\ hist < MaxPenCalls
  /\ canvas' = clear(canvas)
  /\ arg' = [op |-> "clear", prev_op |-> arg.op, before |-> canvas]
  /\ ret' = [raised |-> FALSE]
  /\ hist' = hist + 1
  /\ UNCHANGED <<program, pc, cam, app, ui, out, guard>>

PenResize ==
  /\ pc = "pen" /\ hist < MaxPenCalls
  /\ \E wh \in PenShapes :
       LET r == resize(canvas, wh[1], wh[2])
       IN /\ canvas' = r.canvas
          /\ arg' = [op |-> "resize", prev_op |-> arg.op, before |-> canvas,
                     width |-> wh[1], height |-> wh[2]]
          /\ ret' = [raised |-> r.raised]
  /\ hist' = hist + 1
  /\ UNCHANGED <<program, pc, cam, app, ui, out, guard>>

NextPen == PenDrawLine \/ PenResetPosition \/ PenClear \/ PenResize

SpecPen == InitPen /\ [][NextPen]_vars

\* The pen is up: no last point, nothing in the averaging buffer.
pen_up(c) == c.prev_x = None /\ c.prev_y = None /\ c.position_buffer = <<>>
pen_down(c) == c.prev_x # None /\ c.prev_y # None

\* C12: a clear() made directly after a clear() changes nothing (raster, pen
\* state, buffer), and after any clear() the raster is that of a newly
\* constructed Canvas of the same size and background colour.
C12_ClearIdempotent ==
  arg.op = "clear" =>
    /\ arg.prev_op = "clear" => canvas = arg.before
    /\ canvas = Canvas_init(canvas.width, canvas.height, canvas.bg_color)
    /\ canvas.bg_color = arg.before.bg_color

\* C12 witness: a black canvas was cleared twice in a row and the second
\* clear left it as the first had.
C12_Witness ==
  /\ arg.op = "clear" /\ arg.prev_op = "clear"
  /\ canvas.bg_color = Black
  /\ canvas = arg.before
  /\ canvas.raster = <<>> /\ pen_up(canvas)

(***************************************************************************)
(* SpecBrush: PaintApp run frame by frame with the brush keys unbounded,   *)
(* so that brush_size reaches both ends of its range.  Frames stop adding  *)
(* ink at MaxBrushMarks drawing calls.  hist is the last key event.        *)
(***************************************************************************)

MaxBrushMarks == 1

\* Mutant: '+' has no upper limit.
brush_increase_NoCap(brush_size) == brush_size + 1

\* '+' or '=': self.brush_size = min(50, self.brush_size + 1)
brush_increase(brush_size) == Min(MaxBrush, brush_size + 1)

\* '-' or '_': self.brush_size = max(1, self.brush_size - 1)
brush_decrease(brush_size) == Max(MinBrush, brush_size - 1)

\* The frames of SpecBrush: no hand, a pointing hand close enough to draw
\* below the palette band, an open palm over the palette.
BrushHandLists ==
  { <<>>, <<MakeHand(Postures.point, 20, 50, -10)>>, <<MakeHand(Postures.palm, 60, 5, -10)>> }

InitBrush ==
  /\ program = "PaintApp"
  /\ pc = "frame"
  /\ cam = <<480, 640>>
  /\ canvas = PaintApp_canvas
  /\ app = PaintApp_init
  /\ ui = UI_init
  /\ out = [drawing |-> FALSE, status |-> "n/a"]
  /\ hist = [key |-> "none", before |-> PaintApp_init.brush_size]
  /\ guard = Unused /\ arg = Unused /\ ret = Unused

BrushFrame ==
  /\ pc = "frame"
  /\ \E hands \in BrushHandLists :
       LET r == process_frame(canvas, app, ui, hands, cam)
       IN /\ Len(r.canvas.raster) <= MaxBrushMarks
          /\ canvas' = r.canvas
          /\ app' = r.app
          /\ ui' = r.ui
          /\ out' = [drawing |-> r.drawing, status |-> r.status]
  /\ pc' = "key"
  /\ UNCHANGED <<program, cam, hist, guard, arg, ret>>

BrushNoKey ==
  /\ pc = "key"
  /\ pc' = "frame"
  /\ UNCHANGED <<program, cam, canvas, app, ui, out, hist, guard, arg, ret>>

BrushPlus ==
  /\ pc = "key"
  /\ app' = [app EXCEPT !.brush_size = brush_increase(app.brush_size)]
  /\ hist' = [key |-> "+", before |-> app.brush_size]
  /\ pc' = "frame"
  /\ UNCHANGED <<program, cam, canvas, ui, out, guard, arg, ret>>

BrushMinus ==
  /\ pc = "key"
  /\ app' = [app EXCEPT !.brush_size = brush_decrease(app.brush_size)]
  /\ hist' = [key |-> "-", before |-> app.brush_size]
  /\ pc' = "frame"
  /\ UNCHANGED <<program, cam, canvas, ui, out, guard, arg, ret>>

NextBrush == BrushFrame \/ BrushNoKey \/ BrushPlus \/ BrushMinus

SpecBrush == InitBrush /\ [][NextBrush]_vars

\* C13: brush_size is always an integer from 1 to 50; '+' at 50 and '-' at 1
\* leave it unchanged, and elsewhere they move it by one.
C13_BrushInRange ==
  /\ app.brush_size \in 1..50
  /\ (hist.key = "+" /\ pc = "frame")
       => app.brush_size = (IF hist.before = 50 THEN 50 ELSE hist.before + 1)
  /\ (hist.key = "-" /\ pc = "frame")
       => app.brush_size = (IF hist.before = 1 THEN 1 ELSE hist.before - 1)

\* C13 witness: '+' was pressed at brush size 50, after ink was drawn, and
\* the size is still 50.
C13_WitnessTop ==
  /\ pc = "frame" /\ hist.key = "+" /\ hist.before = 50
  /\ app.brush_size = 50
  /\ canvas.raster # <<>>

\* C14 as stated: resize with width 0 or height 0 leaves width, height and
\* raster as they were and returns to the caller (it does not raise).
C14_DegenerateResizeReturns ==
  (arg.op = "resize" /\ (arg.width = 0 \/ arg.height = 0))
    => /\ canvas.width = arg.before.width
       /\ canvas.height = arg.before.height
       /\ canvas.raster = arg.before.raster
       /\ ret.raised = FALSE

(***************************************************************************)
(* SpecHit: process_selection_gesture applied once, as in SpecSelect, to   *)
(* points that may also lie outside the frame (negative x or y, x at or    *)
(* beyond the width)                                                       *)
(***************************************************************************)

HitXs(frame_width) == {x \in (0 - 80)..(frame_width + 80) : x % 40 = 0}
HitYs == {0 - 5, 40, 85}

InitHit ==
  /\ program = "none"
  /\ pc = "select"
  /\ \E fw \in SelectWidths, e \in BOOLEAN, drawn \in BOOLEAN :
       /\ \E x \in HitXs(fw), y \in HitYs :
            arg = [frame_width |-> fw, x |-> x, y |-> y, eraser_mode |-> e]
       /\ canvas = inked_canvas(fw)
       /\ app = [PaintApp_init EXCEPT !.eraser_mode = e]
       /\ ui = IF drawn THEN draw_buttons(fw) ELSE UI_init
  /\ ret = "n/a"
  /\ cam = Unused /\ out = Unused /\ hist = Unused /\ guard = Unused

SpecHit == InitHit /\ [][NextSelect]_vars

\* The point lies in rectangle b as cv2.rectangle draws it (corners included).
in_rectangle(x, y, b) == b[1] <= x /\ x <= b[3] /\ b[2] <= y /\ y <= b[4]

\* The point lies in no drawn palette cell and in neither drawn button.
outside_controls(x, y, frame_width) ==
  /\ \A i \in 0..(Len(COLORS) - 1) : ~in_rectangle(x, y, palette_cell(i, frame_width))
  /\ ~in_rectangle(x, y, draw_buttons(frame_width).eraser_button_bounds)
  /\ ~in_rectangle(x, y, draw_buttons(frame_width).clear_button_bounds)

\* C15 as stated: a selection point in no palette cell and in neither button
\* takes no branch and leaves colour, eraser mode and raster as they were.
C15_OutsideIsIgnored ==
  (pc = "selected" /\ outside_controls(arg.x, arg.y, arg.frame_width))
    => /\ ret = "none"
       /\ app = [PaintApp_init EXCEPT !.eraser_mode = arg.eraser_mode]
       /\ canvas = inked_canvas(arg.frame_width)

\* The status texts of the two programs.
StatusTexts ==
  {"DRAWING", "READY TO DRAW", "MOVE CLOSER TO DRAW", "SELECTION MODE", "NO HAND DETECTED"}

\* A frame has just been processed under Spec: out and hist describe it.
frame_done == pc = "key"

\* C16 as stated: every frame emits one of the five statuses; a frame without
\* a hand emits NoHandDetected, a Draw frame that passes the depth gate emits
\* Drawing, and a Select frame emits SelectionMode.
C16_StatusFollowsIntent ==
  frame_done =>
    /\ out.status \in StatusTexts
    /\ hist.intent = "NoHand" => out.status = "NO HAND DETECTED"
    /\ (hist.intent = "Draw" /\ (program = "PaintApp" => app.is_close_enough))
         => out.status = "DRAWING"
    /\ hist.intent = "Select" => out.status = "SELECTION MODE"

(***************************************************************************)
(* SpecHands: either program run frame by frame on scenes that show up to  *)
(* MaxSceneHands hands.  The detector, built with max_num_hands = 1,       *)
(* returns landmark sets for at most that many of them.  arg is the last   *)
(* scene with the state the frame started from.                            *)
(***************************************************************************)

MaxSceneHands == 2

SceneHands ==
  { MakeHand(Postures.point, 20, 50, -10), MakeHand(Postures.point, 60, 50, -10),
    MakeHand(Postures.palm, 60, 5, -10), MakeHand(Postures.three, 60, 50, 0) }

Scenes == UNION {[1..n -> SceneHands] : n \in 0..MaxSceneHands}

\* Mutant: the detector returns a landmark set for every hand in view.
detect_All(scene) == scene

\* Hands(max_num_hands=1).process: results.multi_hand_landmarks holds at most
\* max_num_hands landmark sets.
detect(scene) == SubSeq(scene, 1, Min(Len(scene), max_num_hands))

\* One frame of the running program on the detected hands: [canvas, app, out]
run_frame(prog, c, a, u, hands, shape) ==
  IF prog = "PaintApp"
    THEN LET r == process_frame(c, a, u, hands, shape)
         IN [canvas |-> r.canvas, app |-> r.app, ui |-> r.ui,
             out |-> [drawing |-> r.drawing, status |-> r.status]]
    ELSE LET r == legacy_frame(c, a, hands, shape)
         IN [canvas |-> r.canvas, app |-> r.app, ui |-> u,
             out |-> [drawing |-> r.drawing, status |-> r.status]]

InitHands ==
  /\ program \in {"PaintApp", "FingertipPaintApp"}
  /\ pc = "scene"
  /\ cam = <<480, 640>>
  /\ canvas = IF program = "PaintApp" THEN PaintApp_canvas ELSE legacy_canvas
  /\ app = IF program = "PaintApp" THEN PaintApp_init ELSE legacy_init
  /\ ui = UI_init
  /\ out = [drawing |-> FALSE, status |-> "n/a"]
  /\ arg = [scene |-> <<>>, canvas |-> canvas, app |-> app, ui |-> ui]
  /\ hist = Unused /\ guard = Unused /\ ret = Unused

SceneFrame ==
  /\ pc = "scene"
  /\ \E scene \in Scenes :
       LET r == run_frame(program, canvas, app, ui, detect(scene), cam)
       IN /\ Len(r.canvas.raster) <= MaxMarks
          /\ canvas' = r.canvas
          /\ app' = r.app
          /\ ui' = r.ui
          /\ out' = r.out
          /\ arg' = [scene |-> scene, canvas |-> canvas, app |-> app, ui |-> ui]
  /\ UNCHANGED <<program, pc, cam, hist, guard, ret>>

NextHands == SceneFrame

SpecHands == InitHands /\ [][NextHands]_vars

last_point(c) == <<Val(c.prev_x), Val(c.prev_y)>>

\* C18: draw_line with the pen up adds exactly one dot, at the new point, and
\* puts the pen down there; with the pen down it adds exactly one segment,
\* from the last committed point to the point that becomes the last
\* committed one.
C18_PenStateMachine ==
  arg.op = "draw_line" =>
    /\ pen_down(canvas)
    /\ Len(canvas.raster) = Len(arg.before.raster) + 1
    /\ SubSeq(canvas.raster, 1, Len(arg.before.raster)) = arg.before.raster
    /\ LET mark == canvas.raster[Len(canvas.raster)]
       IN IF pen_down(arg.before)
            THEN /\ mark.op = "line"
                 /\ mark.p1 = last_point(arg.before)
                 /\ mark.p2 = last_point(canvas)
                 /\ mark.color = arg.color /\ mark.size = arg.thickness
            ELSE /\ mark.op = "circle"
                 /\ mark.p1 = <<arg.x, arg.y>>
                 /\ last_point(canvas) = <<arg.x, arg.y>>
                 /\ mark.color = arg.color

\* C18 witness: with the pen down, draw_line has drawn a segment of positive
\* length from the last committed point.
C18_Witness ==
  /\ arg.op = "draw_line" /\ pen_down(arg.before)
  /\ canvas.raster[Len(canvas.raster)].op = "line"
  /\ canvas.raster[Len(canvas.raster)].p1 = last_point(arg.before)
  /\ last_point(canvas) # last_point(arg.before)

\* C19: after clear() the raster is all background and the pen is up; a
\* draw_line made directly after it draws a dot at its point, and that dot is
\* the only ink.
C19_ClearLiftsPen ==
  /\ arg.op = "clear" => (canvas.raster = <<>> /\ pen_up(canvas))
  /\ (arg.op = "draw_line" /\ arg.prev_op = "clear")
       => canvas.raster = << circle(<<arg.x, arg.y>>, FloorDiv(arg.thickness, 2), arg.color) >>

\* C19 witness: a canvas with the pen down was cleared.
C19_WitnessCleared ==
  /\ arg.op = "clear"
  /\ pen_down(arg.before) /\ arg.before.raster # <<>>
  /\ canvas.raster = <<>> /\ pen_up(canvas)

\* C20 as stated: after a resize to another resolution made with the pen
\* down, the pen is up.
C20_ResizeLiftsPen ==
  (/\ arg.op = "resize"
   /\ pen_down(arg.before)
   /\ <<canvas.width, canvas.height>> # <<arg.before.width, arg.before.height>>)
    => pen_up(canvas)

(***************************************************************************)
(* SpecDraw: the draw operation of either program (PaintApp's              *)
(* process_drawing_gesture, FingertipPaintApp's process_hand on a pointing *)
(* hand) applied up to MaxDrawCalls times, for either eraser mode, several *)
(* brush sizes and colours, and a canvas of either background colour.      *)
(* arg is the canvas the last call was made on.                            *)
(***************************************************************************)

MaxDrawCalls == 2

DrawBrushes == {MinBrush, PaintApp_init.brush_size, MaxBrush}
DrawColors == {Red, Black}
DrawXs == {200, 600}
DrawYs == {35, 350}

InitDraw ==
  /\ program \in {"PaintApp", "FingertipPaintApp"}
  /\ pc = "draw"
  /\ cam = <<480, 640>>
  /\ \E e \in BOOLEAN, b \in DrawBrushes, col \in DrawColors :
       app = [(IF program = "PaintApp" THEN PaintApp_init ELSE legacy_init)
                EXCEPT !.eraser_mode = e, !.brush_size = b, !.current_color = col]
  /\ \E bg \in PenBackgrounds :
       canvas = IF program = "PaintApp"
                  THEN Canvas_init(canvas_width, canvas_height, bg)
                  ELSE legacy_canvas
  /\ arg = canvas
  /\ hist = 0
  /\ ui = Unused /\ out = Unused /\ guard = Unused /\ ret = Unused

DrawGesture ==
  /\ pc = "draw" /\ program = "PaintApp" /\ hist < MaxDrawCalls
  /\ \E x \in DrawXs, y \in DrawYs : canvas' = process_drawing_gesture(canvas, app, x, y)
  /\ arg' = canvas
  /\ hist' = hist + 1
  /\ UNCHANGED <<program, pc, cam, app, ui, out, guard, ret>>

LegacyDrawHand ==
  /\ pc = "draw" /\ program = "FingertipPaintApp" /\ hist < MaxDrawCalls
  /\ \E px \in HandXs, py \in HandYs :
       canvas' = legacy_process_hand(canvas, app, MakeHand(Postures.point, px, py, 0), cam).canvas
  /\ arg' = canvas
  /\ hist' = hist + 1
  /\ UNCHANGED <<program, pc, cam, app, ui, out, guard, ret>>

NextDraw == DrawGesture \/ LegacyDrawHand

SpecDraw == InitDraw /\ [][NextDraw]_vars

\* The thickness a drawing call was made with (cv2.circle is given
\* thickness // 2 as its radius).
drawn_with(mark, thickness) ==
  IF mark.op = "circle" THEN mark.size = FloorDiv(thickness, 2) ELSE mark.size = thickness

\* C21 as stated: every drawing call a draw operation makes uses the
\* canvas's background colour and 3 * brush_size while eraser_mode is true,
\* and current_color and brush_size while it is false.
C21_EraserPaintsBackground ==
  \A k \in (Len(arg.raster) + 1)..Len(canvas.raster) :
    IF app.eraser_mode
      THEN /\ canvas.raster[k].color = canvas.bg_color
           /\ drawn_with(canvas.raster[k], 3 * app.brush_size)
      ELSE /\ canvas.raster[k].color = app.current_color
           /\ drawn_with(canvas.raster[k], app.brush_size)

\* ---------------------------------------------------------------------------
\* Whole frames with the state before the frame kept beside the state after it
\* ---------------------------------------------------------------------------

\* PaintApp.process_hand: the per-hand method of PaintApp that takes frame
\* coordinates and has no depth check: [canvas, app, drawing]
process_hand(c, a, u, hand_landmarks, frame_shape) ==
  LET pos == get_index_finger_position(hand_landmarks, frame_shape)
      x == pos[1]
      y == pos[2]
      w == frame_shape[2]
  IN IF is_index_finger_up(hand_landmarks)
       THEN [canvas |-> process_drawing_gesture(c, a, x, y), app |-> a, drawing |-> TRUE]
     ELSE IF is_all_fingers_up(hand_landmarks)
       THEN LET r == process_selection_gesture(reset_position(c), a, u, x, y, w)
            IN [canvas |-> r.canvas, app |-> r.app, drawing |-> FALSE]
     ELSE [canvas |-> reset_position(c), app |-> a, drawing |-> FALSE]

\* The hands a frame can show: a pointing hand near or far at each position, an
\* open palm and a three-finger hand over the palette band or below it, and a
\* pointing and a three-finger hand over the clear button.
PoseHands ==
  {MakeHand(Postures.point, px, py, pz) : px \in HandXs, py \in HandYs, pz \in HandZs}
    \cup {MakeHand(Postures.palm, 60, py, 0) : py \in HandYs}
    \cup {MakeHand(Postures.three, 60, py, 0) : py \in HandYs}
    \cup {MakeHand(Postures.point, 95, 5, 0 - 10), MakeHand(Postures.three, 95, 5, 0)}

PoseLists == UNION {[1..n -> PoseHands] : n \in 0..max_num_hands}

\* The three drivers: PaintApp.run (process_frame), FingertipPaintApp.run, and a
\* caller of PaintApp.process_hand.
Drivers == {"PaintApp", "FingertipPaintApp", "PaintApp.process_hand"}

\* The intent the driver's classifier gives the frame
frame_intent(prog, hands) ==
  IF hands = <<>> THEN "NoHand"
  ELSE IF prog = "FingertipPaintApp" THEN legacy_Intent(hands[Len(hands)])
  ELSE Intent(hands[Len(hands)])

\* The index fingertip landmark of the hand the frame ends on, None without a hand
fingertip(hands) ==
  IF hands = <<>> THEN None ELSE Some(hands[Len(hands)]["INDEX_FINGER_TIP"])

\* One step of the driver: [canvas, app, ui, out]
drive(prog, c, a, u, hands, shape) ==
  IF prog = "PaintApp.process_hand"
    THEN LET r == process_hand(c, a, u, hands[1], shape)
         IN [canvas |-> r.canvas, app |-> r.app, ui |-> u,
             out |-> [drawing |-> r.drawing, status |-> "n/a"]]
    ELSE run_frame(prog, c, a, u, hands, shape)

\* An OutlierGuard of filters.py that watches the raw fingertip positions of the
\* Draw frames and is reset on every other frame.  It observes the frames and
\* never feeds the program.
watch(g, intent, pos) ==
  IF intent = "Draw"
    THEN LET r == OutlierGuard_filter(g, pos[1], pos[2])
         IN [guard |-> r.guard, is_valid |-> r.is_valid]
    ELSE [guard |-> OutlierGuard_reset(g), is_valid |-> TRUE]

InitFrame ==
  /\ program \in Drivers
  /\ pc = "frame"
  /\ cam = <<480, 640>>
  /\ canvas = IF program = "FingertipPaintApp" THEN legacy_canvas ELSE PaintApp_canvas
  /\ app = IF program = "FingertipPaintApp" THEN legacy_init ELSE PaintApp_init
  /\ ui = UI_init
  /\ out = [drawing |-> FALSE, status |-> "n/a"]
  /\ arg = [op |-> "__init__", intent |-> "NoHand", tip |-> None,
            canvas |-> canvas, app |-> app]
  /\ guard = OutlierGuard_init(max_jump, dead_zone)
  /\ ret = [is_valid |-> TRUE]
  /\ hist = Unused

\* A frame of PaintApp.run or FingertipPaintApp.run
FrameStep ==
  /\ program \in {"PaintApp", "FingertipPaintApp"} /\ pc = "frame"
  /\ \E hands \in PoseLists :
       LET r == drive(program, canvas, app, ui, hands, cam)
           intent == frame_intent(program, hands)
           seen == watch(guard, intent, get_index_finger_position(hands[Len(hands)], cam))
       IN /\ Len(r.canvas.raster) <= MaxMarks
          /\ canvas' = r.canvas
          /\ app' = r.app
          /\ ui' = r.ui
          /\ out' = r.out
          /\ arg' = [op |-> "frame", intent |-> intent, tip |-> fingertip(hands),
                     canvas |-> canvas, app |-> app]
          /\ guard' = seen.guard
          /\ ret' = [is_valid |-> seen.is_valid]
  /\ UNCHANGED <<program, pc, cam, hist>>

\* A call of PaintApp.process_hand on one detected hand
HandStep ==
  /\ program = "PaintApp.process_hand" /\ pc = "frame"
  /\ \E hand \in PoseHands :
       LET r == drive(program, canvas, app, ui, <<hand>>, cam)
           intent == frame_intent(program, <<hand>>)
           seen == watch(guard, intent, get_index_finger_position(hand, cam))
       IN /\ Len(r.canvas.raster) <= MaxMarks
          /\ canvas' = r.canvas
          /\ app' = r.app
          /\ out' = r.out
          /\ arg' = [op |-> "process_hand", intent |-> intent,
                     tip |-> fingertip(<<hand>>), canvas |-> canvas, app |-> app]
          /\ guard' = seen.guard
          /\ ret' = [is_valid |-> seen.is_valid]
  /\ UNCHANGED <<program, pc, cam, ui, hist>>

NextFrame == FrameStep \/ HandStep

SpecFrame == InitFrame /\ [][NextFrame]_vars

\* C22 as stated: a Draw frame whose raw fingertip position the outlier guard
\* marks invalid advances neither the pen state nor the raster.  The programs
\* hand every Draw position to the canvas without consulting a guard, so a
\* frame whose fingertip jumped farther than max_jump from rest still draws.
C22_InvalidSampleHoldsPen ==
  (arg.op = "frame" /\ arg.intent = "Draw" /\ ~ret.is_valid) => canvas = arg.canvas

\* The point a Draw frame hands to the drawing code: the fingertip in frame
\* pixels, scaled to the canvas by process_frame and left as it is by
\* PaintApp.process_hand and FingertipPaintApp.process_hand.
handed_point(prog, tip, shape) ==
  LET x == IntDiv(tip.x * shape[2], 100)
      y == IntDiv(tip.y * shape[1], 100)
  IN IF prog = "PaintApp"
       THEN <<IntDiv(x * canvas_width, shape[2]), IntDiv(y * canvas_height, shape[1])>>
       ELSE <<x, y>>

gap_intent(i) == i \in {"NoHand", "Select", "Idle"}

\* C23: after a frame with no hand, Select intent or Idle intent the position
\* memory the program keeps (last point and moving-average buffer) equals that of
\* a newly built canvas; the first Draw sample after such a frame is handled as a
\* first sample: it is committed at the handed point itself, with no line from
\* an earlier point and with a buffer holding this sample only.
C23_GapResetsPositionMemory ==
  /\ (arg.op # "__init__" /\ gap_intent(arg.intent))
       => /\ canvas.prev_x = PaintApp_canvas.prev_x
          /\ canvas.prev_y = PaintApp_canvas.prev_y
          /\ canvas.position_buffer = PaintApp_canvas.position_buffer
  /\ (arg.op # "__init__" /\ arg.intent = "Draw" /\ pen_up(arg.canvas)
        /\ canvas # arg.canvas)
       => LET p == handed_point(program, Val(arg.tip), cam)
          IN /\ last_point(canvas) = p
             /\ IF program = "FingertipPaintApp"
                  THEN canvas.raster = arg.canvas.raster
                  ELSE /\ canvas.position_buffer = <<p>>
                       /\ Len(canvas.raster) = Len(arg.canvas.raster) + 1
                       /\ canvas.raster[Len(canvas.raster)].op = "circle"
                       /\ canvas.raster[Len(canvas.raster)].p1 = p

\* A PaintApp frame with Idle intent that found the pen down with two points in
\* the buffer and left the memory empty.
C23_Witness ==
  /\ program = "PaintApp" /\ arg.op = "frame" /\ arg.intent = "Idle"
  /\ pen_down(arg.canvas) /\ Len(arg.canvas.position_buffer) = 1 + 1
  /\ pen_up(canvas)

\* C24: a frame without a detected hand leaves the raster, the active colour,
\* the eraser mode and the brush size as they were, leaves the pen up, clears
\* the cursor position (PaintApp) and reports drawing = False.
C24_NoHandFrame ==
  (arg.op = "frame" /\ arg.intent = "NoHand")
    => /\ canvas.raster = arg.canvas.raster
       /\ app.current_color = arg.app.current_color
       /\ app.eraser_mode = arg.app.eraser_mode
       /\ app.brush_size = arg.app.brush_size
       /\ pen_up(canvas)
       /\ program = "PaintApp" => (app.cursor_x = None /\ app.cursor_y = None)
       /\ out.drawing = FALSE

\* A PaintApp frame without a hand that found ink on the canvas, the pen down and
\* a cursor position set.
C24_Witness ==
  /\ program = "PaintApp" /\ arg.op = "frame" /\ arg.intent = "NoHand"
  /\ arg.canvas.raster # <<>> /\ pen_down(arg.canvas)
  /\ arg.app.cursor_x # None
  /\ pen_up(canvas) /\ app.cursor_x = None /\ canvas.raster = arg.canvas.raster

\* The fingertip is not nearer than the depth threshold
hovering(tip) == ~(tip.z < depth_threshold)

\* C25: on a PaintApp frame with Draw intent whose depth check fails the raster
\* is unchanged, drawing is reported False, and the cursor is at the mapped
\* fingertip position with the ink-active flag False.
C25_HoverMovesCursorOnly ==
  (program = "PaintApp" /\ arg.op = "frame" /\ arg.intent = "Draw"
     /\ hovering(Val(arg.tip)))
    => /\ canvas.raster = arg.canvas.raster
       /\ out.drawing = FALSE
       /\ <<Val(app.cursor_x), Val(app.cursor_y)>> = handed_point(program, Val(arg.tip), cam)
       /\ app.is_close_enough = FALSE

\* A hover frame that found the pen down and the cursor elsewhere, and moved the
\* cursor to the fingertip.
C25_Witness ==
  /\ program = "PaintApp" /\ arg.op = "frame" /\ arg.intent = "Draw"
  /\ hovering(Val(arg.tip))
  /\ pen_down(arg.canvas)
  /\ arg.app.cursor_x # None /\ arg.app.cursor_x # app.cursor_x
  /\ app.cursor_x = Some(handed_point(program, Val(arg.tip), cam)[1])
  /\ canvas.raster = arg.canvas.raster

\* The fingertip of the frame, at the point handed on by the driver, lies in a
\* region the driver's hit test answers for.
over_control(prog, tip, shape) ==
  LET p == handed_point(prog, tip, shape)
  IN IF prog = "FingertipPaintApp"
       THEN legacy_selection_hit(p[1], p[2], shape[2]) # "none"
     ELSE selection_hit(draw_buttons(canvas_width), p[1], p[2],
                        IF prog = "PaintApp" THEN canvas_width ELSE shape[2]) # "none"

\* C26: a frame whose intent is Draw or Idle, or that shows no hand, changes
\* neither the active colour nor the eraser mode and clears nothing, wherever
\* the fingertip is.
C26_HitTestOnlyUnderSelect ==
  (arg.op # "__init__" /\ arg.intent \in {"Draw", "Idle", "NoHand"})
    => /\ app.current_color = arg.app.current_color
       /\ app.eraser_mode = arg.app.eraser_mode
       /\ IsPrefix(arg.canvas.raster, canvas.raster)

\* An Idle frame of PaintApp with the fingertip over a palette cell of another
\* colour than the active one and with ink on the canvas.
C26_Witness ==
  /\ program = "PaintApp" /\ arg.op = "frame" /\ arg.intent = "Idle"
  /\ over_control(program, Val(arg.tip), cam)
  /\ get_color_from_position(handed_point(program, Val(arg.tip), cam)[1],
                             handed_point(program, Val(arg.tip), cam)[2],
                             canvas_width) # None
  /\ get_color_from_position(handed_point(program, Val(arg.tip), cam)[1],
                             handed_point(program, Val(arg.tip), cam)[2],
                             canvas_width)[1] # arg.app.current_color
  /\ arg.canvas.raster # <<>>
  /\ app.current_color = arg.app.current_color /\ canvas.raster = arg.canvas.raster

\* The regions whose hit test answers yes at the point: palette cell i where
\* get_color_from_position returns COLORS[i], and the two buttons.
regions_at(u, x, y, frame_width) ==
  {<<"cell", i>> : i \in {j \in 0..(Len(COLORS) - 1) :
                            get_color_from_position(x, y, frame_width) # None
                              /\ FloorDiv(x, FloorDiv(frame_width, Len(COLORS))) = j}}
    \cup (IF is_eraser_button_clicked(u, x, y, frame_width) THEN {<<"eraser", 0>>} ELSE {})
    \cup (IF is_clear_button_clicked(u, x, y, frame_width) THEN {<<"clear", 0>>} ELSE {})

\* C27 as stated: the regions of the hit tests are pairwise disjoint, no point
\* lies in two of them.  The palette test accepts the whole band above
\* palette_height across the full width, and both buttons lie inside that band.
C27_RegionsDisjoint ==
  Cardinality(regions_at(ui, arg.x, arg.y, arg.frame_width)) <= 1

(***************************************************************************)
(* SpecReset: an instance of one class is fed samples and reset; from each *)
(* reset on, a newly constructed instance is fed the same samples.         *)
(***************************************************************************)

MaxResetCalls == 5

ResetClasses == {"OneEuroFilter", "ExponentialSmoothing", "OutlierGuard", "Canvas"}

\* The samples fed: positions in pixels; the one-channel filters take x alone.
ResetSamples == {<<0, 0>>, <<10, 0>>, <<100, 0>>}

\* __init__ of the class, with the default parameters
constructed(cls) ==
  IF cls = "OneEuroFilter" THEN OneEuroFilter_init
  ELSE IF cls = "ExponentialSmoothing" THEN ExponentialSmoothing_init
  ELSE IF cls = "OutlierGuard" THEN OutlierGuard_init(max_jump, dead_zone)
  ELSE Canvas_init(canvas_width, canvas_height, White)

\* filter(...) of the class, draw_line for the canvas: the instance after the
\* call and what the call gave (for the canvas, the drawing call it made)
sampled(cls, inst, s) ==
  IF cls = "OneEuroFilter"
    THEN LET r == OneEuroFilter_filter(inst, milli(s[1]))
         IN [inst |-> r.filter, out |-> <<r.value>>]
  ELSE IF cls = "ExponentialSmoothing"
    THEN LET r == ExponentialSmoothing_filter(inst, milli(s[1]))
         IN [inst |-> r.filter, out |-> <<r.value>>]
  ELSE IF cls = "OutlierGuard"
    THEN LET r == OutlierGuard_filter(inst, s[1], s[2])
         IN [inst |-> r.guard, out |-> <<r.x, r.y, r.is_valid>>]
  ELSE LET c == draw_line(inst, s[1], s[2], Red, PaintApp_init.brush_size)
       IN [inst |-> c, out |-> <<c.raster[Len(c.raster)]>>]

\* reset() of the class, reset_position() for the canvas
after_reset(cls, inst) ==
  IF cls = "OneEuroFilter" THEN OneEuroFilter_reset(inst)
  ELSE IF cls = "ExponentialSmoothing" THEN ExponentialSmoothing_reset(inst)
  ELSE IF cls = "OutlierGuard" THEN OutlierGuard_reset(inst)
  ELSE reset_position(inst)

\* What the instance remembers of earlier samples (the canvas also holds the
\* image, which reset_position leaves alone)
remembered(cls, inst) ==
  IF cls = "Canvas"
    THEN [prev_x |-> inst.prev_x, prev_y |-> inst.prev_y,
          position_buffer |-> inst.position_buffer]
    ELSE inst

\* guard holds the instance; hist.twin the instance constructed at the last
\* reset, hist.before the instance as that reset found it, hist.fed the number
\* of samples since.
InitReset ==
  /\ program \in ResetClasses
  /\ pc = "reset"
  /\ guard = constructed(program)
  /\ hist = [twin |-> None, calls |-> 0, fed |-> 0, before |-> None]
  /\ ret = [live |-> None, twin |-> None]
  /\ arg = [op |-> "__init__"]
  /\ cam = Unused /\ canvas = Unused /\ app = Unused /\ ui = Unused /\ out = Unused

ResetSample ==
  /\ pc = "reset" /\ hist.calls < MaxResetCalls
  /\ \E s \in ResetSamples :
       LET r == sampled(program, guard, s)
       IN /\ guard' = r.inst
          /\ IF hist.twin = None
               THEN /\ hist' = [hist EXCEPT !.calls = @ + 1]
                    /\ ret' = [live |-> Some(r.out), twin |-> None]
               ELSE LET t == sampled(program, Val(hist.twin), s)
                    IN /\ hist' = [hist EXCEPT !.twin = Some(t.inst), !.calls = @ + 1,
                                                !.fed = @ + 1]
                       /\ ret' = [live |-> Some(r.out), twin |-> Some(t.out)]
  /\ arg' = [op |-> "sample"]
  /\ UNCHANGED <<program, pc, cam, canvas, app, ui, out>>

ResetCall ==
  /\ pc = "reset" /\ hist.calls < MaxResetCalls
  /\ guard' = after_reset(program, guard)
  /\ hist' = [twin |-> Some(constructed(program)), calls |-> hist.calls + 1, fed |-> 0,
              before |-> Some(guard)]
  /\ ret' = [live |-> None, twin |-> None]
  /\ arg' = [op |-> "reset"]
  /\ UNCHANGED <<program, pc, cam, canvas, app, ui, out>>

NextReset == ResetSample \/ ResetCall

SpecReset == InitReset /\ [][NextReset]_vars

\* C28: from a reset() on, a OneEuroFilter, an ExponentialSmoothing and an
\* OutlierGuard remember what a newly constructed instance fed the same samples
\* remembers, and each call returns what it returns on that instance; the same
\* holds of the canvas after reset_position, whose buffer is then empty.
C28_ResetEqualsFresh ==
  /\ hist.twin # None
       => /\ remembered(program, guard) = remembered(program, Val(hist.twin))
          /\ ret.live = ret.twin
  /\ (arg.op = "reset" /\ program = "Canvas") => guard.position_buffer = <<>>

\* A OneEuroFilter that held a value and a non-zero derivative when it was reset
\* and has since returned a blended value, the same as the new instance.
C28_Witness ==
  /\ program = "OneEuroFilter" /\ hist.twin # None
  /\ Val(hist.before).x_prev # None /\ Val(hist.before).dx_prev # 0
  /\ hist.fed = 1 + 1 /\ guard.dx_prev # 0
  /\ ret.live = ret.twin /\ guard = Val(hist.twin)

\* C29: with a previous position, a sample is rejected exactly when its
\* distance exceeds max_jump and the previous velocity is below max_jump * 0.5;
\* an accepted movement makes the sample the previous position and its
\* displacement the previous velocity; a rejected sample and a dead-zone sample
\* leave both as they were.  Distances and velocities are compared squared.
C29_GuardStateUpdate ==
  filtered_with_position
    => LET d2 == distance2(arg.before, arg.x, arg.y)
           jump == d2 > max_jump * max_jump
           slow == 4 * arg.before.prev_velocity2 < max_jump * max_jump
           still == d2 < dead_zone * dead_zone
       IN /\ ~ret.is_valid <=> (jump /\ slow)
          /\ (jump /\ slow) => guard = arg.before
          /\ (~(jump /\ slow) /\ still) => guard = arg.before
          /\ (~(jump /\ slow) /\ ~still)
               => /\ guard.prev_pos = <<arg.x, arg.y>>
                  /\ guard.prev_velocity2 = d2
                  /\ ret.is_valid

\* A jump beyond max_jump made at a previous velocity of at least max_jump * 0.5
\* and accepted.
C29_Witness ==
  /\ filtered_with_position
  /\ distance2(arg.before, arg.x, arg.y) > max_jump * max_jump
  /\ 4 * arg.before.prev_velocity2 >= max_jump * max_jump
  /\ ret.is_valid
  /\ guard.prev_pos = <<arg.x, arg.y>>
  /\ guard.prev_velocity2 = distance2(arg.before, arg.x, arg.y)

(***************************************************************************)
(* SpecAverage: one canvas given up to MaxAverageCalls calls, with the raw *)
(* positions passed to draw_line since the last reset kept beside it       *)
(***************************************************************************)

MaxAverageCalls == 6

AveragePoints == {<<10, 50>>, <<13, 21>>}

\* hist.fed: the positions passed to draw_line since __init__ or the last
\* reset_position (clear calls reset_position); hist.calls: calls made
InitAverage ==
  /\ program = "none"
  /\ pc = "average"
  /\ canvas = Canvas_init(100, 100, White)
  /\ arg = [op |-> "__init__"]
  /\ hist = [fed |-> <<>>, calls |-> 0]
  /\ cam = Unused /\ app = Unused /\ ui = Unused /\ out = Unused /\ guard = Unused
  /\ ret = Unused

AverageDrawLine ==
  /\ pc = "average" /\ hist.calls < MaxAverageCalls
  /\ \E pt \in AveragePoints :
       /\ canvas' = draw_line(canvas, pt[1], pt[2], Red, PaintApp_init.brush_size)
       /\ arg' = [op |-> "draw_line"]
       /\ hist' = [fed |-> Append(hist.fed, pt), calls |-> hist.calls + 1]
  /\ UNCHANGED <<program, pc, cam, app, ui, out, guard, ret>>

AverageResetPosition ==
  /\ pc = "average" /\ hist.calls < MaxAverageCalls
  /\ canvas' = reset_position(canvas)
  /\ arg' = [op |-> "reset_position"]
  /\ hist' = [fed |-> <<>>, calls |-> hist.calls + 1]
  /\ UNCHANGED <<program, pc, cam, app, ui, out, guard, ret>>

AverageClear ==
  /\ pc = "average" /\ hist.calls < MaxAverageCalls
  /\ canvas' = clear(canvas)
  /\ arg' = [op |-> "clear"]
  /\ hist' = [fed |-> <<>>, calls |-> hist.calls + 1]
  /\ UNCHANGED <<program, pc, cam, app, ui, out, guard, ret>>

AverageResize ==
  /\ pc = "average" /\ hist.calls < MaxAverageCalls
  /\ canvas' = resize(canvas, 2 * canvas.width, 2 * canvas.height).canvas
  /\ arg' = [op |-> "resize"]
  /\ hist' = [hist EXCEPT !.calls = @ + 1]
  /\ UNCHANGED <<program, pc, cam, app, ui, out, guard, ret>>

NextAverage == AverageDrawLine \/ AverageResetPosition \/ AverageClear \/ AverageResize

SpecAverage == InitAverage /\ [][NextAverage]_vars

\* The last n entries of a sequence
last_n(seq, n) == SubSeq(seq, Len(seq) - n + 1, Len(seq))

\* The mean of the positions, each coordinate truncated to an integer
truncated_mean(window) ==
  <<IntDiv(sum_coord(window, 1), Len(window)), IntDiv(sum_coord(window, 1 + 1), Len(window))>>

\* C30: the point draw_line commits (the end of the drawing call and the new
\* previous point) is the truncated mean of the last min(k, 5) positions passed
\* since the last reset, k being the number of calls since that reset; the first
\* point after a reset is committed as passed; the buffer holds exactly those
\* last min(k, 5) positions, none from before the reset.
C30_TrailingAverage ==
  LET k == Len(hist.fed)
      window == last_n(hist.fed, Min(k, BufferLen))
  IN /\ canvas.position_buffer = window
     /\ arg.op = "draw_line"
          => /\ last_point(canvas) = truncated_mean(window)
             /\ canvas.raster[Len(canvas.raster)].p2 = truncated_mean(window)
             /\ k = 1 => last_point(canvas) = hist.fed[1]

\* The sixth call since a reset: the committed point is the mean of the last
\* five positions, which differs from the mean of all six and from the raw point.
C30_Witness ==
  /\ arg.op = "draw_line" /\ Len(hist.fed) = BufferLen + 1
  /\ last_point(canvas) = truncated_mean(last_n(hist.fed, BufferLen))
  /\ last_point(canvas) # truncated_mean(hist.fed)
  /\ last_point(canvas) # hist.fed[Len(hist.fed)]

(***************************************************************************)
(* SpecStreak: one OutlierGuard given filter and reset calls, with the     *)
(* number of rejections in a row kept beside it                            *)
(***************************************************************************)

MaxStreak == 3

\* hist.streak: how many of the latest calls in a row were rejected samples,
\* counted up to MaxStreak
InitStreak ==
  /\ program = "none"
  /\ pc = "streak"
  /\ guard = OutlierGuard_init(max_jump, dead_zone)
  /\ arg = NoCall
  /\ ret = NoResult
  /\ hist = [streak |-> 0]
  /\ cam = Unused /\ canvas = Unused /\ app = Unused /\ ui = Unused /\ out = Unused

StreakFilter ==
  /\ pc = "streak"
  /\ \E x \in GuardXs, y \in GuardYs :
       LET r == OutlierGuard_filter(guard, x, y)
       IN /\ guard' = r.guard
          /\ arg' = [op |-> "filter", before |-> guard, x |-> x, y |-> y]
          /\ ret' = [x |-> r.x, y |-> r.y, is_valid |-> r.is_valid]
          /\ hist' = [streak |-> IF r.is_valid THEN 0 ELSE Min(hist.streak + 1, MaxStreak)]
  /\ UNCHANGED <<program, pc, cam, canvas, app, ui, out>>

StreakReset ==
  /\ pc = "streak"
  /\ guard' = OutlierGuard_reset(guard)
  /\ arg' = [op |-> "reset", before |-> guard, x |-> 0, y |-> 0]
  /\ ret' = NoResult
  /\ hist' = [streak |-> 0]
  /\ UNCHANGED <<program, pc, cam, canvas, app, ui, out>>

NextStreak == StreakFilter \/ StreakReset

SpecStreak == InitStreak /\ [][NextStreak]_vars

\* C31: when the latest call rejected its sample, a next sample that is still
\* farther than max_jump from the held position is rejected as well, the held
\* position is returned and the guard is left as it was; so the rejections go
\* on, however many such samples follow, until reset() or a sample within
\* max_jump of the held position.
C31_NoRecoveryWithoutReset ==
  [][(hist.streak >= 1 /\ arg'.op = "filter"
        /\ distance2(guard, arg'.x, arg'.y) > max_jump * max_jump)
       => /\ ~ret'.is_valid
          /\ <<ret'.x, ret'.y>> = guard.prev_pos
          /\ guard' = guard
          /\ hist'.streak >= 1]_vars

\* MaxStreak far samples rejected in a row by a guard that is still as the first
\* rejection found it.
C31_Witness ==
  /\ hist.streak = MaxStreak /\ arg.op = "filter" /\ ~ret.is_valid
  /\ distance2(guard, arg.x, arg.y) > max_jump * max_jump
  /\ guard = arg.before

\* The frame's Draw position reaches the drawing code: the intent is Draw and,
\* in process_frame, the depth check passes.
draw_reaches_canvas ==
  /\ arg.op # "__init__" /\ arg.intent = "Draw"
  /\ program = "PaintApp" => ~hovering(Val(arg.tip))

\* The marks of the raster that are drawing calls
ink_marks(c) == {k \in 1..Len(c.raster) : c.raster[k].op \in {"circle", "line"}}

\* C32: a Draw frame that reaches the drawing code with y <= palette_height
\* draws nothing and leaves the raster, the last committed point and the
\* moving-average buffer as they were; hence no drawing call and no buffered
\* position has y <= palette_height.
C32_BandDrawsNothing ==
  /\ (draw_reaches_canvas /\ handed_point(program, Val(arg.tip), cam)[2] <= palette_height)
       => /\ canvas.raster = arg.canvas.raster
          /\ canvas.prev_x = arg.canvas.prev_x /\ canvas.prev_y = arg.canvas.prev_y
          /\ canvas.position_buffer = arg.canvas.position_buffer
  /\ \A k \in ink_marks(canvas) :
       canvas.raster[k].p1[2] > palette_height /\ canvas.raster[k].p2[2] > palette_height
  /\ \A k \in 1..Len(canvas.position_buffer) :
       canvas.position_buffer[k][2] > palette_height

\* A near Draw frame of PaintApp inside the palette band that found the pen down
\* and left it down at the same point.
C32_Witness ==
  /\ program = "PaintApp" /\ draw_reaches_canvas
  /\ handed_point(program, Val(arg.tip), cam)[2] <= palette_height
  /\ pen_down(arg.canvas) /\ arg.canvas.position_buffer # <<>>
  /\ canvas = arg.canvas

\* The frame before this PaintApp frame was a hover: the pen was down and the
\* ink-active flag was False when the frame began (every frame that is neither
\* a near Draw nor a hover lifts the pen).
began_after_hover ==
  /\ program = "PaintApp" /\ arg.op = "frame"
  /\ pen_down(arg.canvas) /\ ~arg.app.is_close_enough

\* The frame added one line that starts at the point committed before it.
continued_stroke ==
  /\ Len(canvas.raster) = Len(arg.canvas.raster) + 1
  /\ canvas.raster[Len(canvas.raster)].op = "line"
  /\ canvas.raster[Len(canvas.raster)].p1 = last_point(arg.canvas)
  /\ canvas.raster[Len(canvas.raster)].p2 = last_point(canvas)

\* C33: a PaintApp frame with Draw intent whose depth check fails leaves the
\* pen state (last point and buffer) and the raster as they were; so a near
\* Draw frame below the palette band that follows hover frames finds the last
\* point of the stroke before them and draws a line from it.
C33_HoverKeepsPenDown ==
  /\ (program = "PaintApp" /\ arg.op = "frame" /\ arg.intent = "Draw"
        /\ hovering(Val(arg.tip)))
       => canvas = arg.canvas
  /\ (began_after_hover /\ draw_reaches_canvas
        /\ handed_point(program, Val(arg.tip), cam)[2] > palette_height)
       => continued_stroke

\* A near Draw frame that followed a hover and drew a line from the point
\* committed before the hover to another point.
C33_Witness ==
  /\ began_after_hover /\ draw_reaches_canvas
  /\ continued_stroke
  /\ last_point(canvas) # last_point(arg.canvas)
  /\ arg.app.cursor_x # arg.canvas.prev_x

(***************************************************************************)
(* SpecShadow: frames of PaintApp.run whose open palm points at the        *)
(* palette, at the two buttons, past the right edge and below the band     *)
(***************************************************************************)

\* Open palms over a palette cell, over the eraser button, over the clear
\* button and at the right edge, each at two heights inside the band and one
\* below it; two near pointing hands that put ink on the canvas.
ShadowHands ==
  {MakeHand(Postures.palm, px, py, 0) : px \in {20, 85, 95, 100}, py \in {5, 8, 50}}
    \cup {MakeHand(Postures.point, px, 50, 0 - 10) : px \in HandXs}

ShadowLists == UNION {[1..n -> ShadowHands] : n \in 0..max_num_hands}

InitShadow ==
  /\ program = "PaintApp"
  /\ pc = "frame"
  /\ cam = <<480, 640>>
  /\ canvas = PaintApp_canvas
  /\ app = PaintApp_init
  /\ ui = UI_init
  /\ out = [drawing |-> FALSE, status |-> "n/a"]
  /\ arg = [op |-> "__init__", intent |-> "NoHand", tip |-> None,
            canvas |-> canvas, app |-> app]
  /\ ret = "n/a"
  /\ hist = Unused /\ guard = Unused

\* A frame of PaintApp.run; ret is the branch process_selection_gesture takes
\* for the fingertip of a Select frame
ShadowFrame ==
  /\ pc = "frame"
  /\ \E hands \in ShadowLists :
       LET r == process_frame(canvas, app, ui, hands, cam)
           intent == frame_intent(program, hands)
           p == handed_point(program, hands[Len(hands)]["INDEX_FINGER_TIP"], cam)
       IN /\ Len(r.canvas.raster) <= MaxMarks
          /\ canvas' = r.canvas
          /\ app' = r.app
          /\ ui' = r.ui
          /\ out' = [drawing |-> r.drawing, status |-> r.status]
          /\ arg' = [op |-> "frame", intent |-> intent, tip |-> fingertip(hands),
                     canvas |-> canvas, app |-> app]
          /\ ret' = IF intent = "Select"
                      THEN selection_hit(ui, p[1], p[2], canvas_width)
                      ELSE "n/a"
  /\ UNCHANGED <<program, pc, cam, hist, guard>>

NextShadow == ShadowFrame

SpecShadow == InitShadow /\ [][NextShadow]_vars

\* The rectangle lies inside the band the palette test answers for
inside_band(b) ==
  0 <= b[1] /\ b[3] <= canvas_width /\ b[4] <= palette_height

C35_PenStateConsistent ==
  /\ canvas.prev_x = None <=> canvas.prev_y = None
  /\ canvas.position_buffer = <<>> <=> canvas.prev_x = None
  /\ Len(canvas.position_buffer) <= BufferLen

\* More draw_line calls since the last reset than the buffer holds: the buffer
\* is full and the pen is down.
C35_Witness ==
  /\ Len(hist.fed) > BufferLen
  /\ Len(canvas.position_buffer) = BufferLen
  /\ canvas.prev_x # None /\ canvas.prev_y # None

====
